---- MODULE Spec2Model ----
(***************************************************************************)
(* A model of the dictation pipeline of jarvis-ai-assistant:               *)
(*   - the native whisper handle (whisper_addon: init / transcribe / free  *)
(*     and the External's finalizer), called by concurrent threads;        *)
(*   - the module-level model cache of LocalWhisperTranscriber;            *)
(*   - the cloud fallback chain transcribeWithBestModel;                   *)
(*   - FastStreamingPaster.pasteFast and its PasteSession.                 *)
(* Each part has its own next-state relation and specification; the        *)
(* variables of the other parts are left unchanged.                        *)
(***************************************************************************)
EXTENDS Integers, Sequences, FiniteSets, TLC

\* ------------------------------------------------------------------ bounds
\* Number of threads calling into one native handle.
NumThreads == 3
\* Calls (transcribe or free) each thread makes on the handle.
MaxCalls == 2

VARIABLES
  \* ---- the native handle (struct WhisperHandle) and its callers
  mutex,          \* WhisperHandle::mutex: the thread holding it, or NoThread
  ctx,            \* WhisperHandle::ctx: "loaded" or "null"
  freed,          \* WhisperHandle::freed
  tpc,            \* per thread: where it is inside transcribe_audio / free_model
  calls,          \* per thread: calls started so far
  engineCtx,      \* per thread: the ctx value its whisper_full call was given
  outcome,        \* per thread: how its last call ended
  freeCalls,      \* completed free_model calls
  released,       \* number of whisper_free calls made on the context
  finalized,      \* the External's finalizer: "no", "ok" or "fault"
  engineOnNull,   \* whisper_full was entered with a released (null) context
  lockQueue       \* the transcribe callers at or past the lock_guard, in call
                  \* order, each with whether it found the mutex held (blocked)

hvars == <<mutex, ctx, freed, tpc, calls, engineCtx, outcome, freeCalls,
           released, finalized, engineOnNull, lockQueue>>

\* ---- the model cache of LocalWhisperTranscriber (module-level state)
VARIABLES
  whisperAddon,   \* TRUE when the custom addon was loaded at module initialisation
  whisperHandle,  \* the cached handle: a context id, or NoHandle (null)
  loadedModelId,  \* the cached model id, or NoModel (null)
  contexts,       \* every native context created by init so far: id -> record
  initCalls,      \* number of whisperAddon.init calls made
  lastReturn,     \* what the last cache operation returned to its caller
  lastPath,       \* the engine paths the last transcribeFromBuffer used
  lastCall        \* the last cache operation: its argument, whether it called
                  \* whisperAddon.init, and what it gave to and got from the engine

cvars == <<whisperAddon, whisperHandle, loadedModelId, contexts, initCalls,
           lastReturn, lastPath, lastCall>>

\* ---- the fallback chain transcribeWithBestModel, one request at a time
VARIABLES
  cpc,            \* "idle", "await" (a backend call is awaited) or "done"
  requests,       \* requests started so far
  invoked,        \* the backends invoked for the current request, in order
  inflight,       \* the backends whose call has been made and has not settled
  response,       \* the settled outcome of the awaited call, not yet handled
  responses,      \* per invoked backend that settled: what the network gave it
  attempts,       \* per invoked backend that settled: what its function returned
  chainResult,    \* how transcribeWithBestModel ended for the current request
  dictionaryContext, \* nodeDictionaryService.getWordsForTranscription() of the request
  sent            \* the form data built for each invoked backend, in order

chvars == <<cpc, requests, invoked, inflight, response, responses, attempts,
            chainResult, dictionaryContext, sent>>

\* ---- FastStreamingPaster: the PasteSession, the clipboard, the pasteFast calls
VARIABLES
  now,            \* the clock (Date.now()), in milliseconds
  jumps,          \* long idle periods passed so far
  lastPasteTime,  \* FastStreamingPaster.lastPasteTime
  lastPastedText, \* FastStreamingPaster.lastPastedText
  clipboard,      \* the system clipboard's text
  app,            \* the texts pasted into the focused application, in order
  started,        \* pasteFast calls made so far
  pf              \* per pasteFast call: its position, promise, subprocesses, timers

pvars == <<now, jumps, lastPasteTime, lastPastedText, clipboard, app,
           started, pf>>

\* ---- transcribeFromBuffer's padding: the PCM buffer in and out
VARIABLES
  audioBuffer,     \* the audioBuffer argument, as runs of equal bytes
  processedBuffer, \* processedBuffer, what pcmToWav is given; none before a call
  wavBuffer,       \* what pcmToWav returned
  float32Array     \* the fast path's samples, as runs of equal values

padvars == <<audioBuffer, processedBuffer, wavBuffer, float32Array>>

\* ---- addSimpleSmartSpacing on its own: one call's inputs and its result
VARIABLES
  fmtIn,   \* text, Date.now(), lastPasteTime and lastPastedText of the call
  fmtOut   \* the string returned; none before the call

fmtvars == <<fmtIn, fmtOut>>

\* ---- the whisper worker process: its module state and its messages
VARIABLES
  isModelLoaded,      \* the worker's isModelLoaded
  currentModelPath,   \* the worker's currentModelPath, or NoPath (null)
  transcribeFunction, \* TRUE when transcribeFunction is set
  received,           \* the messages received so far, in order
  handling,           \* per received message: where its handler is
  sentResponses,      \* what sendResponse has sent, in order
  exited              \* process.exit was called

wvars == <<isModelLoaded, currentModelPath, transcribeFunction, received,
           handling, sentResponses, exited>>

\* ---- NudgeConfigManager: one UserActivity object and the clock
VARIABLES
  activity,       \* the UserActivity passed to every call
  nudgeNow,       \* Date.now()
  sinceLast,      \* time between the last recorded activity and the one before
  records         \* recordTypingActivity calls made so far

nvars == <<activity, nudgeNow, sinceLast, records>>

\* ---- CloudCommandParserService: the cache and the parseCommand calls
VARIABLES
  cache,          \* CloudCommandParserService.cache: key -> ParsedIntent
  parses,         \* per parseCommand call: command, position, result
  backendCalls    \* the commands sent to parseWithAI, in order

cpvars == <<cache, parses, backendCalls>>

vars == <<hvars, cvars, chvars, pvars, padvars, fmtvars, wvars, nvars, cpvars>>

\* What each part leaves alone.
notHandle == <<cvars, chvars, pvars, padvars, fmtvars, wvars, nvars, cpvars>>
notCache == <<hvars, chvars, pvars, padvars, fmtvars, wvars, nvars, cpvars>>
notChain == <<hvars, cvars, pvars, padvars, fmtvars, wvars, nvars, cpvars>>
notPaste == <<hvars, cvars, chvars, padvars, fmtvars, wvars, nvars, cpvars>>
notPad == <<hvars, cvars, chvars, pvars, fmtvars, wvars, nvars, cpvars>>
notFormat == <<hvars, cvars, chvars, pvars, padvars, wvars, nvars, cpvars>>
notWorker == <<hvars, cvars, chvars, pvars, padvars, fmtvars, nvars, cpvars>>
notNudge == <<hvars, cvars, chvars, pvars, padvars, fmtvars, wvars, cpvars>>
notParser == <<hvars, cvars, chvars, pvars, padvars, fmtvars, wvars, nvars>>

Threads == 1..NumThreads
NoThread == 0

\* ------------------------------------------------- the native handle
\* struct WhisperHandle as init_model leaves it: ctx set, freed = false.
HandleInit ==
  /\ mutex = NoThread
  /\ ctx = "loaded"
  /\ freed = FALSE
  /\ tpc = [t \in Threads |-> "idle"]
  /\ calls = [t \in Threads |-> 0]
  /\ engineCtx = [t \in Threads |-> "none"]
  /\ outcome = [t \in Threads |-> "none"]
  /\ freeCalls = 0
  /\ released = 0
  /\ finalized = "no"
  /\ engineOnNull = FALSE
  /\ lockQueue = << >>

\* The handle is reachable from JavaScript until the finalizer has run.
CanCall(t) == tpc[t] = "idle" /\ calls[t] < MaxCalls /\ finalized = "no"

\* transcribe_audio, lines 303-307: the freed test, made before the mutex is
\* taken.  A freed handle throws "Model has been freed".
FreedCheckPasses == ~(freed \/ ctx = "null")

\* A transcribe_audio that runs whisper_full without waiting for the mutex.
LockFree_NoWait == TRUE

\* Whether a thread may take the mutex (std::lock_guard blocks otherwise).
LockFree == mutex = NoThread

TranscribeCheck(t) ==
  /\ CanCall(t)
  /\ calls' = [calls EXCEPT ![t] = @ + 1]
  /\ IF FreedCheckPasses
       THEN /\ tpc' = [tpc EXCEPT ![t] = "t_wait"]
            /\ outcome' = [outcome EXCEPT ![t] = "none"]
            /\ lockQueue' = Append(lockQueue, [thread |-> t, blocked |-> ~LockFree])
       ELSE /\ tpc' = tpc
            /\ outcome' = [outcome EXCEPT ![t] = "freedError"]
            /\ UNCHANGED lockQueue
  /\ UNCHANGED <<mutex, ctx, freed, engineCtx, freeCalls, released, finalized,
                 engineOnNull>>
  /\ UNCHANGED notHandle

\* The callers once thread t has taken the mutex: each of the others now
\* finds it held.
Blocked(q, t) ==
  [i \in DOMAIN q |-> IF q[i].thread = t THEN q[i] ELSE [q[i] EXCEPT !.blocked = TRUE]]

\* The callers once thread t has left transcribe_audio.
Left(q, t) == SelectSeq(q, LAMBDA w : w.thread # t)

\* transcribe_audio, lines 348-355: lock_guard, then whisper_full(handle->ctx).
TranscribeLock(t) ==
  /\ tpc[t] = "t_wait"
  /\ LockFree
  /\ mutex' = t
  /\ tpc' = [tpc EXCEPT ![t] = "t_engine"]
  /\ engineCtx' = [engineCtx EXCEPT ![t] = ctx]
  /\ engineOnNull' = (engineOnNull \/ ctx = "null")
  /\ lockQueue' = Blocked(lockQueue, t)
  /\ UNCHANGED <<ctx, freed, calls, outcome, freeCalls, released, finalized>>
  /\ UNCHANGED notHandle

\* The outcomes of whisper_full: 0, non-zero ("Transcription failed"), and on
\* a null context a null dereference (undefined behaviour: a fault, or an
\* error return).
EngineOutcomes(c) == IF c = "loaded" THEN {"ok", "failed"} ELSE {"fault", "failed"}

\* transcribe_audio, lines 357-389: the result, and the guard's unlock.
TranscribeFinish(t) ==
  /\ tpc[t] = "t_engine"
  /\ \E r \in EngineOutcomes(engineCtx[t]) :
        outcome' = [outcome EXCEPT ![t] = r]
  /\ mutex' = NoThread
  /\ tpc' = [tpc EXCEPT ![t] = "idle"]
  /\ engineCtx' = [engineCtx EXCEPT ![t] = "none"]
  /\ lockQueue' = Left(lockQueue, t)
  /\ UNCHANGED <<ctx, freed, calls, freeCalls, released, finalized, engineOnNull>>
  /\ UNCHANGED notHandle

\* free_model, line 400: the call starts and waits for the mutex.
FreeStart(t) ==
  /\ CanCall(t)
  /\ calls' = [calls EXCEPT ![t] = @ + 1]
  /\ tpc' = [tpc EXCEPT ![t] = "f_wait"]
  /\ outcome' = [outcome EXCEPT ![t] = "none"]
  /\ UNCHANGED <<mutex, ctx, freed, engineCtx, freeCalls, released, finalized,
                 engineOnNull, lockQueue>>
  /\ UNCHANGED notHandle

\* free_model, line 402: lock_guard.
FreeLock(t) ==
  /\ tpc[t] = "f_wait"
  /\ LockFree
  /\ mutex' = t
  /\ tpc' = [tpc EXCEPT ![t] = "f_locked"]
  /\ lockQueue' = Blocked(lockQueue, t)
  /\ UNCHANGED <<ctx, freed, calls, engineCtx, outcome, freeCalls, released,
                 finalized, engineOnNull>>
  /\ UNCHANGED notHandle

\* The test guarding whisper_free in free_model and in the finalizer.
NeedsRelease == ~freed /\ ctx # "null"

\* free_model, lines 403-409: release once, mark freed, unlock, return.
FreeBody(t) ==
  /\ tpc[t] = "f_locked"
  /\ IF NeedsRelease
       THEN /\ released' = released + 1
            /\ ctx' = "null"
            /\ freed' = TRUE
       ELSE UNCHANGED <<released, ctx, freed>>
  /\ mutex' = NoThread
  /\ tpc' = [tpc EXCEPT ![t] = "idle"]
  /\ outcome' = [outcome EXCEPT ![t] = "ok"]
  /\ freeCalls' = freeCalls + 1
  /\ UNCHANGED <<calls, engineCtx, finalized, engineOnNull, lockQueue>>
  /\ UNCHANGED notHandle

\* wrap_handle's finalizer, lines 220-229.  It runs when the External is
\* collected, so no call is in progress and none follows.  It takes the
\* mutex, releases the context if needed, then deletes the handle while the
\* lock_guard still refers to its mutex: the guard's destructor unlocks a
\* destroyed mutex in freed storage (undefined behaviour: it may pass
\* unnoticed or fault).
Finalize ==
  /\ finalized = "no"
  /\ \A t \in Threads : tpc[t] = "idle"
  /\ LockFree
  /\ IF NeedsRelease
       THEN /\ released' = released + 1
            /\ ctx' = "null"
            /\ freed' = TRUE
       ELSE UNCHANGED <<released, ctx, freed>>
  /\ \E r \in {"ok", "fault"} : finalized' = r
  /\ UNCHANGED <<mutex, tpc, calls, engineCtx, outcome, freeCalls, engineOnNull,
                 lockQueue>>
  /\ UNCHANGED notHandle

HandleNext ==
  \/ \E t \in Threads : TranscribeCheck(t)
  \/ \E t \in Threads : TranscribeLock(t)
  \/ \E t \in Threads : TranscribeFinish(t)
  \/ \E t \in Threads : FreeStart(t)
  \/ \E t \in Threads : FreeLock(t)
  \/ \E t \in Threads : FreeBody(t)
  \/ Finalize


\* ------------------------------------------------- claims on the handle
\* Threads inside the handle's critical section: in whisper_full, or in the
\* guarded body of free_model.
InCS == {t \in Threads : tpc[t] \in {"t_engine", "f_locked"}}
InEngine == {t \in Threads : tpc[t] = "t_engine"}

\* C1: for any interleaving of transcribe and free calls on one handle, at
\* most one call is inside the critical section at a time (two transcriptions
\* never overlap), and no step releases the native context while a
\* transcription on the handle is running.
C1_MutualExclusion ==
  /\ [](Cardinality(InCS) <= 1)
  /\ [][released' # released => InEngine = {}]_vars

\* C1 witness: a transcription is running while another caller (a transcribe
\* or a free) is blocked on the mutex.
C1_Contention ==
  \E t, u \in Threads : tpc[t] = "t_engine" /\ tpc[u] \in {"t_wait", "f_wait"}

\* C2 (as claimed): a transcribe on a freed handle fails fast; in every
\* interleaving whisper_full is only ever run on a context that has not been
\* released.
C2_NoEngineOnReleased ==
  /\ ~engineOnNull
  /\ \A t \in Threads : tpc[t] = "t_engine" => engineCtx[t] = "loaded"

\* C3 (as claimed): whatever number of free calls is made, and with the
\* finalizer running afterwards, every one of them succeeds and the native
\* context is released exactly once in total.
C3_FreeIdempotent ==
  /\ released <= 1
  /\ (freeCalls > 0 \/ finalized # "no") => released = 1
  /\ finalized # "fault"

\* C28 as stated: blocked transcribe callers are granted the lock in call
\* order: the caller running its transcription, if it was blocked, is not
\* behind a blocked caller that called earlier and still waits.
C28_GrantedInCallOrder ==
  \A i, j \in DOMAIN lockQueue :
    (i < j /\ lockQueue[j].thread = mutex /\ lockQueue[j].blocked) =>
      ~lockQueue[i].blocked

\* Thread t is granted the mutex for its transcription.
Granted(t) == tpc[t] = "t_wait" /\ tpc'[t] = "t_engine"

\* C28 amended: blocked transcribe callers are granted the lock one at a
\* time, a caller only when no other call holds the lock and only a caller
\* that is waiting; the others keep waiting, in their call order.
C28_GrantedOneAtATime ==
  [][ \A t \in Threads : Granted(t) =>
        /\ mutex = NoThread
        /\ mutex' = t
        /\ \E i \in DOMAIN lockQueue : lockQueue[i].thread = t
        /\ \A i \in DOMAIN lockQueue :
             /\ lockQueue'[i].thread = lockQueue[i].thread
             /\ lockQueue[i].thread # t =>
                  tpc'[lockQueue[i].thread] = "t_wait" ]_vars

\* A blocked caller runs its transcription while a caller that called
\* earlier, and was blocked too, still waits.
C28_Overtaken ==
  \E i, j \in DOMAIN lockQueue :
    /\ i < j
    /\ lockQueue[j].thread = mutex
    /\ tpc[mutex] = "t_engine"
    /\ lockQueue[j].blocked
    /\ lockQueue[i].blocked
    /\ tpc[lockQueue[i].thread] = "t_wait"

\* ------------------------------------------------- the model cache
\* Bounds: engine init calls per run.
MaxInits == 3

ModelIds == {"tiny.en", "base"}
NoModel == "null"
NoHandle == 0

\* The cached handle gave no result: no call was made on it.
NoNative == [kind |-> "none"]

\* before: the model cached when the call began; runs: the engine runs made
\* on the cached handle; slow: what the slow path's direct call gave.
NoCall == [op |-> "none", model |-> NoModel, before |-> NoModel,
           inited |-> FALSE, options |-> << >>, runs |-> << >>,
           native |-> NoNative, slow |-> "none"]

\* No context has been created; the addon is either present or not.
CacheInit ==
  /\ whisperAddon \in BOOLEAN
  /\ whisperHandle = NoHandle
  /\ loadedModelId = NoModel
  /\ contexts = << >>
  /\ initCalls = 0
  /\ lastReturn = "none"
  /\ lastPath = "none"
  /\ lastCall = NoCall

\* whisperAddon.free(handle) on the main thread: free_model, lines 403-407.
NativeFree(cs, h) ==
  IF cs[h].state = "Loaded" THEN [cs EXCEPT ![h].state = "Freed"] ELSE cs

\* whisperAddon.init: init_model, lines 274-284, creates a new context.
NativeInit(cs, m) == Append(cs, [model |-> m, state |-> "Loaded"])

\* A preloadModel that drops the previous handle without freeing it.
FreePrevious_Skip(cs, h) == cs

\* preloadModel, lines 174-183: free the previous model if one is loaded.
FreePrevious(cs, h) == IF h # NoHandle THEN NativeFree(cs, h) ELSE cs

\* A preloadModel that never takes the "already preloaded" return.
AlreadyLoaded_Never(m) == FALSE

\* preloadModel, line 169: whisperHandle && loadedModelId === modelId.
AlreadyLoaded(m) == whisperHandle # NoHandle /\ loadedModelId = m

\* LocalWhisperTranscriber.preloadModel.  downloaded: isModelDownloaded(m);
\* initOk: whether init_model succeeds or throws.
PreloadModel(m, downloaded, initOk) ==
  /\ initCalls < MaxInits
  /\ lastCall' = [NoCall EXCEPT !.op = "preloadModel", !.model = m,
                    !.before = loadedModelId,
                    !.inited = whisperAddon /\ downloaded /\ ~AlreadyLoaded(m)]
  /\ IF ~whisperAddon \/ ~downloaded
       THEN /\ lastReturn' = "false"
            /\ UNCHANGED <<whisperHandle, loadedModelId, contexts, initCalls>>
       ELSE IF AlreadyLoaded(m)
         THEN /\ lastReturn' = "true"
              /\ UNCHANGED <<whisperHandle, loadedModelId, contexts, initCalls>>
         ELSE /\ initCalls' = initCalls + 1
              /\ IF initOk
                   THEN /\ contexts' = NativeInit(FreePrevious(contexts, whisperHandle), m)
                        /\ whisperHandle' = Len(contexts) + 1
                        /\ loadedModelId' = m
                        /\ lastReturn' = "true"
                   ELSE /\ contexts' = FreePrevious(contexts, whisperHandle)
                        /\ whisperHandle' = NoHandle
                        /\ loadedModelId' = NoModel
                        /\ lastReturn' = "false"
  /\ lastPath' = "none"
  /\ UNCHANGED whisperAddon
  /\ UNCHANGED notCache

\* A freeModel that forgets to clear the model id.
AfterFree_KeepsId(id) == id

\* freeModel, line 228: loadedModelId = null.
AfterFree(id) == NoModel

\* LocalWhisperTranscriber.freeModel.
FreeModel ==
  /\ IF whisperHandle # NoHandle /\ whisperAddon
       THEN /\ contexts' = NativeFree(contexts, whisperHandle)
            /\ whisperHandle' = NoHandle
            /\ loadedModelId' = AfterFree(loadedModelId)
       ELSE UNCHANGED <<contexts, whisperHandle, loadedModelId>>
  /\ lastReturn' = "void"
  /\ lastPath' = "none"
  /\ lastCall' = [NoCall EXCEPT !.op = "freeModel", !.before = loadedModelId]
  /\ UNCHANGED <<whisperAddon, initCalls>>
  /\ UNCHANGED notCache

\* What the direct call of the slow path can yield: text, no text, or an
\* exception.
EngineResults == {"text", "empty", "throws"}

SilenceTokens == {"[BLANK_AUDIO]", "[Silence]", "(Silence)"}

\* One whisper_full run on the resident context: its return code and the
\* texts of the segments it found.  Silence is a run that ends with code 0
\* and no segment, or with one segment holding a silence token.
EngineRuns ==
  { [code |-> 1, segs |-> << >>],
    [code |-> 0, segs |-> << >>],
    [code |-> 0, segs |-> <<"[BLANK_AUDIO]">>],
    [code |-> 0, segs |-> <<"Hi">>],
    [code |-> 0, segs |-> <<"Hi", "[BLANK_AUDIO]">>] }

\* transcribe_audio, part_000 lines 357-388: a non-zero code throws;
\* otherwise one segment object per segment and the concatenated text (kept
\* as the sequence of its pieces).
transcribe_audio(run) ==
  IF run.code # 0
    THEN [kind |-> "throws"]
    ELSE [kind |-> "ok",
          segments |-> [i \in DOMAIN run.segs |-> [text |-> run.segs[i]]],
          text |-> run.segs]

\* Line 447: text.replace(<silence tokens>, '').trim().
FilterSilence(text) == SelectSeq(text, LAMBDA w : w \notin SilenceTokens)

\* A fast path that gives up on empty text, as the slow path does.
FastReturn_NullOnEmpty(text) == IF text = << >> THEN "null" ELSE "text"

\* Lines 446-450: the fast path returns { text, isAssistant, model } whatever
\* the text is.
FastReturn(text) == IF text = << >> THEN "emptyText" ELSE "text"

\* Line 424: the language the engine is told.
Language(m) == IF m = "tiny.en" THEN "en" ELSE "auto"

\* Lines 434-437: the options of the call on the cached handle, audio and
\* language; no prompt is among them.
FastOptions(m) == [audio |-> "float32Array", language |-> Language(m)]

\* A fast path taken whatever model the cached handle holds.
UseFast_AnyModel(h, id, m) == whisperAddon /\ h # NoHandle

\* Line 422: isModelLoaded() && loadedModelId === modelId && whisperAddon &&
\* whisperHandle.
UseFast(h, id, m) == whisperAddon /\ h # NoHandle /\ id = m

\* Lines 517-541: the slow path returns its text, or null for empty text or
\* an exception.
SlowReturn(slow) == IF slow = "text" THEN "text" ELSE "null"

\* A fast path whose exception ends the call.
AfterAddonError_Fails(slow) == "null"

\* Lines 451-455: the fast path's exception is logged and the call falls
\* through to the slow path.
AfterAddonError(slow) == SlowReturn(slow)

\* LocalWhisperTranscriber.transcribeFromBuffer, the cache's part of it.
\* The auto-preload (lines 404-419) runs only when no handle is cached; the
\* fast path (lines 421-455) only when the cached model is the one asked for;
\* the slow path (lines 457-536) loads the model anew inside the other addon
\* and never touches the cache.
TranscribeFromBuffer(m, downloaded, initOk, run, slow) ==
  /\ initCalls < MaxInits
  /\ IF ~downloaded
       THEN /\ lastReturn' = "null"
            /\ lastPath' = "none"
            /\ lastCall' = [NoCall EXCEPT !.op = "transcribeFromBuffer", !.model = m,
                              !.before = loadedModelId]
            /\ UNCHANGED <<whisperHandle, loadedModelId, contexts, initCalls>>
       ELSE
         LET auto == whisperAddon /\ whisperHandle = NoHandle
             cs1 == IF auto /\ initOk THEN NativeInit(contexts, m) ELSE contexts
             h1 == IF auto
                     THEN (IF initOk THEN Len(contexts) + 1 ELSE NoHandle)
                     ELSE whisperHandle
             id1 == IF auto /\ initOk THEN m ELSE loadedModelId
             useFast == UseFast(h1, id1, m)
             \* transcribe_audio on the cached handle throws on a freed one
             engine == useFast /\ cs1[h1].state = "Loaded"
             fastRes == IF engine THEN transcribe_audio(run) ELSE [kind |-> "throws"]
         IN /\ contexts' = cs1
            /\ whisperHandle' = h1
            /\ loadedModelId' = id1
            /\ initCalls' = IF auto THEN initCalls + 1 ELSE initCalls
            /\ lastCall' = [op |-> "transcribeFromBuffer", model |-> m,
                            before |-> loadedModelId,
                            inited |-> auto,
                            options |-> IF useFast THEN <<FastOptions(m)>> ELSE << >>,
                            runs |-> IF engine THEN <<run>> ELSE << >>,
                            native |-> IF useFast THEN fastRes ELSE NoNative,
                            slow |-> IF useFast /\ fastRes.kind # "throws"
                                       THEN "none" ELSE slow]
            /\ IF useFast /\ fastRes.kind # "throws"
                 THEN /\ lastPath' = "fast"
                      /\ lastReturn' = FastReturn(FilterSilence(fastRes.text))
                 ELSE /\ lastPath' = IF useFast THEN "fast+slow" ELSE "slow"
                      /\ lastReturn' = IF useFast THEN AfterAddonError(slow)
                                                  ELSE SlowReturn(slow)
  /\ UNCHANGED whisperAddon
  /\ UNCHANGED notCache

CacheNext ==
  \/ \E m \in ModelIds, d \in BOOLEAN, ok \in BOOLEAN : PreloadModel(m, d, ok)
  \/ FreeModel
  \/ \E m \in ModelIds, d \in BOOLEAN, ok \in BOOLEAN,
        run \in EngineRuns, sl \in EngineResults :
          TranscribeFromBuffer(m, d, ok, run, sl)



\* ------------------------------------------------- the fallback chain
\* Bounds: requests per run.
MaxRequests == 2

\* Text is a sequence of characters; an optional text (string | null) is a
\* sequence holding no text or one.
None == << >>
Some(text) == <<text>>

SpaceChars == {" ", "\n", "\t"}

RECURSIVE TrimStart(_)
TrimStart(s) ==
  IF s # << >> /\ Head(s) \in SpaceChars THEN TrimStart(Tail(s)) ELSE s

RECURSIVE TrimEnd(_)
TrimEnd(s) ==
  IF s # << >> /\ s[Len(s)] \in SpaceChars
    THEN TrimEnd(SubSeq(s, 1, Len(s) - 1))
    ELSE s

\* String.prototype.trim.
Trim(s) == TrimEnd(TrimStart(s))

\* `text?.trim() || null`: the empty string is falsy.
TrimOrNull(text) == IF Trim(text) = << >> THEN None ELSE Some(Trim(text))

\* The fixed order of the chain's steps.
Priority == <<"gpt-4o-mini-transcribe", "gpt-4o-transcribe", "whisper-1">>

\* Response bodies the transcription endpoint may send.
Bodies == { << >>, <<" ">>, <<"h", "i">>, <<" ", "h", "i", "\n">> }

\* What awaiting one backend call can give: getOpenAIKey rejects, fetch
\* rejects, a response whose status is not ok, or an ok response with a body.
Responses ==
  {[kind |-> k, body |-> << >>] : k \in {"keyError", "fetchError", "status"}}
    \cup {[kind |-> "ok", body |-> b] : b \in Bodies}

\* The try block of transcribeWithGPT4oMini (and of its two siblings), lines
\* 15-43: anything but an ok response throws.
TryBlock(r) ==
  IF r.kind = "ok"
    THEN [threw |-> FALSE, value |-> TrimOrNull(r.body)]
    ELSE [threw |-> TRUE, value |-> None]

\* A backend function without its catch block.
CatchAll_Rethrow(x) == x

\* The catch block, lines 44-47: log and return null.
CatchAll(x) == IF x.threw THEN [threw |-> FALSE, value |-> None] ELSE x

\* transcribeWithGPT4oMini / transcribeWithGPT4oTranscribe / transcribeWithWhisper1.
TranscribeWith(r) == CatchAll(TryBlock(r))

\* A chain that never takes a result as a success.
Truthy_Never(result) == FALSE

\* `if (result)`: a non-null, non-empty string.
Truthy(result) == result # None /\ result[1] # << >>

\* A chain whose next step is the step it just made.
NextBackend_Same(i) == i

\* The step that follows step i (Step 1, Step 2, Step 3 of lines 135-157).
NextBackend(i) == i + 1

\* A chain that throws when every backend has failed.
AllFailedResult_Throws ==
  [kind |-> "thrown", text |-> None, failures |-> <<"failed", "failed", "failed">>]

\* Lines 159-160: `return { text: null }`.
AllFailedResult == [kind |-> "returned", text |-> None, failures |-> << >>]

NoResult == [kind |-> "none", text |-> None, failures |-> << >>]

\* What nodeDictionaryService.getWordsForTranscription() may return: no
\* words, or the user's terms.
Dictionaries == {"", "Jarvis, OpenAI"}

HintLabel == "This audio may contain these terms: "

\* Lines 25-26: `This audio may contain these terms: ${dictionaryContext}`.
promptHint(context) == HintLabel \o context

\* The form data a backend function builds, lines 17-29 (56-66, 93-104):
\* the prompt field is appended only for a non-empty dictionaryContext, and
\* whisper-1 also gets language 'en'.
FormData(model, context) ==
  [file |-> "audioFilePath",
   model |-> model,
   response_format |-> "text",
   language |-> IF model = "whisper-1" THEN Some("en") ELSE None,
   prompt |-> IF context # "" THEN Some(promptHint(context)) ELSE None]

ChainInit ==
  /\ cpc = "idle"
  /\ requests = 0
  /\ invoked = << >>
  /\ inflight = {}
  /\ response = << >>
  /\ responses = << >>
  /\ attempts = << >>
  /\ chainResult = NoResult
  /\ dictionaryContext = ""
  /\ sent = << >>

\* transcribeWithBestModel is called: lines 127-137, up to the first await of
\* a backend.
ChainStart(context) ==
  /\ cpc \in {"idle", "done"}
  /\ requests < MaxRequests
  /\ requests' = requests + 1
  /\ cpc' = "await"
  /\ invoked' = <<Priority[1]>>
  /\ inflight' = {Priority[1]}
  /\ response' = << >>
  /\ responses' = << >>
  /\ attempts' = << >>
  /\ chainResult' = NoResult
  /\ dictionaryContext' = context
  /\ sent' = <<FormData(Priority[1], context)>>
  /\ UNCHANGED notChain

\* The awaited backend call settles (the network's move).  Nothing in the
\* code bounds how long this takes: fetch is called without a timeout or an
\* abort signal (lines 31-38).
BackendResponds(r) ==
  /\ cpc = "await"
  /\ response = << >>
  /\ response' = <<r>>
  /\ inflight' = {}
  /\ UNCHANGED <<cpc, requests, invoked, responses, attempts, chainResult,
                 dictionaryContext, sent>>
  /\ UNCHANGED notChain

\* The chain resumes after its await: lines 137-160.
ChainResume ==
  /\ cpc = "await"
  /\ response # << >>
  /\ LET res == TranscribeWith(response[1])
         i == Len(invoked)
     IN /\ responses' = Append(responses, response[1])
        /\ attempts' = Append(attempts, res.value)
        /\ response' = << >>
        /\ IF res.threw
             THEN /\ chainResult' = [kind |-> "thrown", text |-> None, failures |-> << >>]
                  /\ cpc' = "done"
                  /\ UNCHANGED <<invoked, inflight, sent>>
             ELSE IF Truthy(res.value)
               THEN /\ chainResult' = [kind |-> "returned", text |-> res.value,
                                       failures |-> << >>]
                    /\ cpc' = "done"
                    /\ UNCHANGED <<invoked, inflight, sent>>
               ELSE IF i < Len(Priority)
                 THEN /\ invoked' = Append(invoked, Priority[NextBackend(i)])
                      /\ inflight' = {Priority[NextBackend(i)]}
                      /\ sent' = Append(sent, FormData(Priority[NextBackend(i)],
                                                       dictionaryContext))
                      /\ UNCHANGED <<cpc, chainResult>>
                 ELSE /\ chainResult' = AllFailedResult
                      /\ cpc' = "done"
                      /\ UNCHANGED <<invoked, inflight, sent>>
  /\ UNCHANGED <<requests, dictionaryContext>>
  /\ UNCHANGED notChain

ChainNext ==
  \/ \E context \in Dictionaries : ChainStart(context)
  \/ \E r \in Responses : BackendResponds(r)
  \/ ChainResume

\* ------------------------------------------------- claims on the chain
IsPrefix(s, t) == Len(s) <= Len(t) /\ \A i \in 1..Len(s) : s[i] = t[i]

\* C5: for one request the backends invoked form a prefix of the priority
\* list: one call in flight at a time, in priority order, each backend at
\* most once, and backend i+1 only after backend i has finished with a
\* failure.
C5_SequentialPrefix ==
  /\ IsPrefix(invoked, Priority)
  /\ Cardinality(inflight) <= 1
  /\ \A i, j \in DOMAIN invoked : i # j => invoked[i] # invoked[j]
  /\ \A k \in DOMAIN invoked :
       k > 1 => Len(attempts) >= k - 1 /\ attempts[k - 1] = None

\* C5 witness: the third backend is being awaited after two failures.
C5_ThirdInvoked == cpc = "await" /\ Len(invoked) = 3 /\ inflight = {Priority[3]}

\* C6: as soon as backend i returns non-empty text the chain returns exactly
\* that text, and no backend after i is invoked for the request.
C6_ShortCircuit ==
  \A i \in DOMAIN attempts :
    attempts[i] # None =>
      /\ cpc = "done"
      /\ chainResult.kind = "returned"
      /\ chainResult.text = attempts[i]
      /\ Len(invoked) = i

\* C6 witness: backend 1 failed, backend 2 returned text and the chain ended.
C6_SecondSucceeded ==
  /\ cpc = "done"
  /\ Len(attempts) = 2
  /\ attempts[1] = None
  /\ attempts[2] = Some(<<"h", "i">>)

\* A response that is a failure of the backend: an error status, a thrown
\* exception, or an ok response whose body is empty or only whitespace.
IsFailure(r) == r.kind # "ok" \/ \A k \in DOMAIN r.body : r.body[k] \in SpaceChars

\* C7: an attempt that ends in an HTTP error status, an exception or an empty
\* or whitespace-only body is absorbed: the backend's function returns null,
\* no exception escapes the chain, and the next backend in priority order (if
\* there is one) is invoked.
C7_FailureAbsorbed ==
  /\ chainResult.kind # "thrown"
  /\ \A i \in DOMAIN responses :
       IsFailure(responses[i]) =>
         /\ attempts[i] = None
         /\ i < Len(Priority) => Len(invoked) > i /\ invoked[i + 1] = Priority[i + 1]

\* C7 witness: an error status, a rejected fetch and a whitespace-only body
\* were absorbed in turn.
C7_ThreeKindsAbsorbed ==
  /\ Len(responses) = 3
  /\ responses[1].kind = "status"
  /\ responses[2].kind = "fetchError"
  /\ responses[3] = [kind |-> "ok", body |-> <<" ">>]

AllFailed == Len(attempts) = Len(Priority) /\ \A i \in DOMAIN attempts : attempts[i] = None

C9_ChainReturns == (cpc = "await") ~> (cpc = "done")


\* ------------------------------------------------- SmartFormatter
\* FastStreamingPaster.SPACE_TIMEOUT, in milliseconds.
SPACE_TIMEOUT == 10000

UpperAZ == <<"A", "B", "C", "D", "E", "F", "G", "H", "I", "J", "K", "L", "M", "N", "O", "P", "Q", "R", "S", "T", "U", "V", "W", "X", "Y", "Z">>
LowerAZ == <<"a", "b", "c", "d", "e", "f", "g", "h", "i", "j", "k", "l", "m", "n", "o", "p", "q", "r", "s", "t", "u", "v", "w", "x", "y", "z">>

\* The regular expression /[A-Z]/ on one character.
IsUpperAZ(c) == \E i \in DOMAIN UpperAZ : UpperAZ[i] = c

\* String.prototype.toLowerCase and toUpperCase on one character.
ToLowerChar(c) ==
  IF IsUpperAZ(c) THEN LowerAZ[CHOOSE i \in DOMAIN UpperAZ : UpperAZ[i] = c] ELSE c

ToUpperChar(c) ==
  IF \E i \in DOMAIN LowerAZ : LowerAZ[i] = c
    THEN UpperAZ[CHOOSE i \in DOMAIN LowerAZ : LowerAZ[i] = c]
    ELSE c

ToUpperCase(s) == [i \in 1..Len(s) |-> ToUpperChar(s[i])]

\* The separators of split(/[\s,.!?;:]+/).
WordSeps == SpaceChars \cup {",", ".", "!", "?", ";", ":"}

\* s.split(/[\s,.!?;:]+/)[0]: the characters before the first separator.
RECURSIVE FirstWord(_)
FirstWord(s) ==
  IF s = << >> \/ Head(s) \in WordSeps THEN << >> ELSE <<Head(s)>> \o FirstWord(Tail(s))

\* The properNouns set of adjustContinuationCapitalization.
properNouns ==
  { <<"I">>,
    <<"M", "o", "n", "d", "a", "y">>,
    <<"T", "u", "e", "s", "d", "a", "y">>,
    <<"W", "e", "d", "n", "e", "s", "d", "a", "y">>,
    <<"T", "h", "u", "r", "s", "d", "a", "y">>,
    <<"F", "r", "i", "d", "a", "y">>,
    <<"S", "a", "t", "u", "r", "d", "a", "y">>,
    <<"S", "u", "n", "d", "a", "y">>,
    <<"J", "a", "n", "u", "a", "r", "y">>,
    <<"F", "e", "b", "r", "u", "a", "r", "y">>,
    <<"M", "a", "r", "c", "h">>,
    <<"A", "p", "r", "i", "l">>,
    <<"M", "a", "y">>,
    <<"J", "u", "n", "e">>,
    <<"J", "u", "l", "y">>,
    <<"A", "u", "g", "u", "s", "t">>,
    <<"S", "e", "p", "t", "e", "m", "b", "e", "r">>,
    <<"O", "c", "t", "o", "b", "e", "r">>,
    <<"N", "o", "v", "e", "m", "b", "e", "r">>,
    <<"D", "e", "c", "e", "m", "b", "e", "r">>,
    <<"G", "o", "o", "g", "l", "e">>,
    <<"A", "p", "p", "l", "e">>,
    <<"M", "i", "c", "r", "o", "s", "o", "f", "t">>,
    <<"A", "m", "a", "z", "o", "n">>,
    <<"F", "a", "c", "e", "b", "o", "o", "k">>,
    <<"T", "w", "i", "t", "t", "e", "r">>,
    <<"L", "i", "n", "k", "e", "d", "I", "n">>,
    <<"G", "i", "t", "H", "u", "b">>,
    <<"O", "p", "e", "n", "A", "I">>,
    <<"C", "h", "a", "t", "G", "P", "T">>,
    <<"J", "a", "r", "v", "i", "s">>,
    <<"C", "E", "O">>,
    <<"A", "P", "I">>,
    <<"A", "I">>,
    <<"M", "L">>,
    <<"U", "S", "A">>,
    <<"U", "K">>,
    <<"E", "U">> }

SentenceEnders == {".", "!", "?"}

\* A sentence test that does not look past a closing quote.
EndsWithSentence_NoQuote(last) ==
  LET t == Trim(last)
  IN last # << >> /\ Len(t) >= 1 /\ t[Len(t)] \in SentenceEnders

\* /[.!?]"?\s*$/.test(last.trim()), for a non-empty lastPastedText.
EndsWithSentence(last) ==
  LET t == Trim(last)
      n == Len(t)
  IN /\ last # << >>
     /\ n >= 1
     /\ \/ t[n] \in SentenceEnders
        \/ n >= 2 /\ t[n] = "\"" /\ t[n - 1] \in SentenceEnders

StartsWithQuote(s) == s # << >> /\ Head(s) \in {"\"", "'"}

\* A capitalisation rule without the exception for acronyms.
adjustContinuationCapitalization_NoAcronym(text) ==
  IF Len(text) < 2 THEN text
  ELSE IF text[1] # " " \/ ~IsUpperAZ(text[2]) THEN text
  ELSE LET firstWord == FirstWord(SubSeq(text, 2, Len(text)))
       IN IF firstWord \in properNouns THEN text
          ELSE IF StartsWithQuote(Trim(text)) THEN text
          ELSE <<" ", ToLowerChar(text[2])>> \o SubSeq(text, 3, Len(text))

\* adjustContinuationCapitalization, lines 109-148 (text is 1-indexed here).
adjustContinuationCapitalization(text) ==
  IF Len(text) < 2 THEN text
  ELSE IF text[1] # " " \/ ~IsUpperAZ(text[2]) THEN text
  ELSE LET firstWord == FirstWord(SubSeq(text, 2, Len(text)))
       IN IF firstWord \in properNouns THEN text
          ELSE IF StartsWithQuote(Trim(text)) THEN text
          ELSE IF firstWord = ToUpperCase(firstWord) /\ Len(firstWord) > 1 THEN text
          ELSE <<" ", ToLowerChar(text[2])>> \o SubSeq(text, 3, Len(text))

\* Line 84: now - this.lastPasteTime, with no clamp.
timeSinceLastPaste(clock, lastTime) == clock - lastTime

\* A session window that includes its end.
addSimpleSmartSpacing_Inclusive(text, clock, lastTime, lastText) ==
  IF lastTime > 0 /\ timeSinceLastPaste(clock, lastTime) <= SPACE_TIMEOUT
    THEN IF EndsWithSentence(lastText)
           THEN <<" ">> \o text
           ELSE adjustContinuationCapitalization(<<" ">> \o text)
    ELSE text

\* addSimpleSmartSpacing, lines 82-103, with the clock reading and the
\* PasteSession it reads as arguments.
addSimpleSmartSpacing(text, clock, lastTime, lastText) ==
  IF lastTime > 0 /\ timeSinceLastPaste(clock, lastTime) < SPACE_TIMEOUT
    THEN IF EndsWithSentence(lastText)
           THEN <<" ">> \o text
           ELSE adjustContinuationCapitalization(<<" ">> \o text)
    ELSE text


\* ------------------------------------------------- TextInjector (pasteFast)
\* Bounds: pasteFast calls per run, long idle periods, the clock's first
\* reading.
MaxPastes == 2
MaxJumps == 1
StartTime == 100

\* The timeouts of tryAppleScriptPaste and scheduleClipboardWrite, and the
\* native module's clipboard restoration delay, in milliseconds.
COPY_TIMEOUT == 200
PASTE_TIMEOUT == 500
CLIPBOARD_DELAY == 2000
RESTORE_MAX_Late == CLIPBOARD_DELAY + PASTE_TIMEOUT
RESTORE_MAX == 1500

\* The clock's step, and an idle period that ends one step before the session
\* window closes when it starts as the deferred clipboard write fires.
Tick == COPY_TIMEOUT \div 2
LongJump == SPACE_TIMEOUT - CLIPBOARD_DELAY - Tick

NoTimer == -1
PasteCalls == 1..MaxPastes

\* The texts pasteFast is called with.
Texts == { << >>, <<" ">>, <<"H", "i">> }
OldClipboard == <<"o", "l", "d">>

\* What tryNativePaste meets: no module or no fastPasteText function, a paste
\* that succeeds, one that reports failure, or a call that throws something
\* else.
NativeOutcomes == {"unavailable", "success", "noInput", "otherError"}

\* nat is what tryNativePaste met, native what it returned; backup and
\* written are the catch block's and the deferred clipboard write's outcome;
\* copyExit tells whether pbcopy exited before its 200 ms had elapsed.
UnusedCall ==
  [pc |-> "unused", text |-> << >>, smart |-> << >>, nat |-> "none",
   native |-> "none", backup |-> "none", written |-> "none",
   copyExit |-> "none",
   promise |-> "none", copyProc |-> "none", pasteProc |-> "none",
   copyTimer |-> NoTimer, pasteTimer |-> NoTimer, writeTimer |-> NoTimer,
   restoreBy |-> NoTimer, saved |-> << >>, delivered |-> 0, error |-> "none",
   endTime |-> NoTimer]

PasteInit ==
  /\ now = StartTime
  /\ jumps = 0
  /\ lastPasteTime = 0
  /\ lastPastedText = << >>
  /\ clipboard = OldClipboard
  /\ app = << >>
  /\ started = 0
  /\ pf = [c \in PasteCalls |-> UnusedCall]

\* A continuation of an awaited, already settled promise is queued: it runs
\* before any timer or subprocess event.
MicrotaskPending == \E c \in PasteCalls : pf[c].pc = "nativeAwait"

Due(t) == t # NoTimer /\ t <= now

\* A tryNativePaste that swallows the reported failure and falls back.
tryNativePaste_Swallow(nat) ==
  IF nat = "success" THEN "true" ELSE "false"

\* A tryNativePaste that reports a successful native paste as unavailable.
tryNativePaste_FallbackOnSuccess(nat) ==
  IF nat = "noInput" THEN "throw" ELSE "false"

\* tryNativePaste, lines 154-182: true, false, or throw NO_TEXT_INPUT.
tryNativePaste(nat) ==
  CASE nat = "success" -> "true"
    [] nat = "noInput" -> "throw"
    [] OTHER -> "false"

\* A test that lets whitespace-only text through.
IsBlank_EmptyOnly(text) == text = << >>

\* Line 24: !text?.trim()
IsBlank(text) == Trim(text) = << >>

\* A formatter that records its result in the PasteSession.
SessionAfterFormat_Touch(smart) == <<now, smart>>

\* addSimpleSmartSpacing and adjustContinuationCapitalization, lines 82-148,
\* assign neither static: the PasteSession after formatting.
SessionAfterFormat(smart) == <<lastPasteTime, lastPastedText>>

\* pasteFast, lines 17-34: the empty-text test, the formatting, and
\* tryNativePaste's body, which runs synchronously up to pasteFast's await.
\* A native paste that succeeds has put the text on the clipboard, pasted it,
\* and will restore the clipboard within RESTORE_MAX.
PasteFast(c, text, nat) ==
  /\ c = started + 1
  /\ started' = c
  /\ IF IsBlank(text)
       THEN /\ pf' = [pf EXCEPT ![c] = [UnusedCall EXCEPT !.pc = "returned",
                                                          !.text = text,
                                                          !.endTime = now]]
            /\ UNCHANGED <<clipboard, app, lastPasteTime, lastPastedText>>
       ELSE LET smart == addSimpleSmartSpacing(text, now, lastPasteTime, lastPastedText)
                r == [UnusedCall EXCEPT !.pc = "nativeAwait", !.text = text,
                                        !.smart = smart, !.nat = nat,
                                        !.native = tryNativePaste(nat)]
            IN /\ lastPasteTime' = SessionAfterFormat(smart)[1]
               /\ lastPastedText' = SessionAfterFormat(smart)[2]
               /\ IF nat = "success"
                    THEN /\ pf' = [pf EXCEPT ![c] = [r EXCEPT !.delivered = 1,
                                                              !.saved = clipboard,
                                                              !.restoreBy = now + RESTORE_MAX]]
                         /\ app' = Append(app, smart)
                         /\ clipboard' = smart
                    ELSE /\ pf' = [pf EXCEPT ![c] = r]
                         /\ UNCHANGED <<clipboard, app>>
  /\ UNCHANGED <<now, jumps>>
  /\ UNCHANGED notPaste

\* A pasteFast that records the paste in PasteSession although it failed.
SessionOnFailure_Update(r) == <<now, r.smart>>

\* Lines 36-37 and 51-52: the PasteSession after a paste that succeeded.
SessionOnSuccess(r) == <<now, r.smart>>

\* Lines 59-75: the catch block leaves the PasteSession alone.
SessionOnFailure(r) == <<lastPasteTime, lastPastedText>>

\* pasteFast after a paste that succeeded, lines 35-45 and 51-58: update the
\* PasteSession, schedule the clipboard write, return.
OnSuccess(c, r, clip) ==
  /\ pf' = [pf EXCEPT ![c] = [r EXCEPT !.pc = "returned",
                                       !.writeTimer = now + CLIPBOARD_DELAY,
                                       !.endTime = now]]
  /\ lastPasteTime' = SessionOnSuccess(r)[1]
  /\ lastPastedText' = SessionOnSuccess(r)[2]
  /\ clipboard' = clip

\* A catch block that reports the backup but leaves the clipboard alone.
BackupWrite_Skip(r, clip, clipOk) == clip

\* clipboard.writeText(smartText) in the catch block, lines 66-72: the
\* clipboard afterwards; a write that throws is logged and swallowed.
BackupWrite(r, clip, clipOk) == IF clipOk THEN r.smart ELSE clip

\* pasteFast's catch block, lines 59-75: write the text to the clipboard
\* (a failure of that write is swallowed) and throw the error again.
OnFailure(c, r, err, clip, clipOk) ==
  /\ pf' = [pf EXCEPT ![c] = [r EXCEPT !.pc = "threw", !.error = err,
                                       !.backup = IF clipOk THEN "written" ELSE "failed",
                                       !.endTime = now]]
  /\ lastPasteTime' = SessionOnFailure(r)[1]
  /\ lastPastedText' = SessionOnFailure(r)[2]
  /\ clipboard' = BackupWrite(r, clip, clipOk)

\* An event of a call whose promise has settled already: nothing resumes.
NoResume(c, r, clip) ==
  /\ pf' = [pf EXCEPT ![c] = r]
  /\ clipboard' = clip
  /\ UNCHANGED <<lastPasteTime, lastPastedText>>

\* reject(new Error(err)) inside tryAppleScriptPaste: settles the promise if
\* it is pending, and pasteFast's catch block then runs.
Reject(c, r, err, clip, clipOk) ==
  IF r.promise = "pending"
    THEN OnFailure(c, [r EXCEPT !.promise = err], err, clip, clipOk)
    ELSE NoResume(c, r, clip)

\* resolve() inside tryAppleScriptPaste.
Resolve(c, r, clip) ==
  IF r.promise = "pending"
    THEN OnSuccess(c, [r EXCEPT !.promise = "resolved"], clip)
    ELSE NoResume(c, r, clip)

\* pasteFast resumes after `await this.tryNativePaste(smartText)`, lines
\* 34-50; on false it enters tryAppleScriptPaste, lines 187-197 and 223-227:
\* spawn pbcopy and start the copy timer.  Continuations run in the order in
\* which their calls were made.
NativeResume(c, clipOk) ==
  /\ pf[c].pc = "nativeAwait"
  /\ \A d \in PasteCalls : d < c => pf[d].pc # "nativeAwait"
  /\ CASE pf[c].native = "true" -> OnSuccess(c, pf[c], clipboard)
       [] pf[c].native = "throw" ->
            OnFailure(c, pf[c], "NO_TEXT_INPUT", clipboard, clipOk)
       [] OTHER ->
            /\ pf' = [pf EXCEPT ![c] = [@ EXCEPT !.pc = "fallback",
                                                 !.promise = "pending",
                                                 !.copyProc = "running",
                                                 !.copyTimer = now + COPY_TIMEOUT]]
            /\ UNCHANGED <<lastPasteTime, lastPastedText, clipboard>>
  /\ UNCHANGED <<now, jumps, app, started>>
  /\ UNCHANGED notPaste

\* copyProcess.on('close'), lines 198-221.  pbcopy that exits with 0 has
\* written the text to the clipboard; the handler then spawns osascript and
\* starts the paste timer.
CopyClose(c, code, clipOk) ==
  /\ ~MicrotaskPending
  /\ pf[c].copyProc = "running"
  /\ IF code = 0
       THEN NoResume(c, [pf[c] EXCEPT !.copyProc = "exited",
                                      !.copyExit = IF now < pf[c].copyTimer
                                                     THEN "intime" ELSE "late",
                                      !.pasteProc = "running",
                                      !.pasteTimer = now + PASTE_TIMEOUT],
                     pf[c].smart)
       ELSE Reject(c, [pf[c] EXCEPT !.copyProc = "exited"], "Copy failed",
                   clipboard, clipOk)
  /\ UNCHANGED <<now, jumps, app, started>>
  /\ UNCHANGED notPaste

\* The copy timer, lines 224-227: it is never cleared, so it fires 200 ms
\* after the spawn whatever has happened since.
CopyTimeout(c, clipOk) ==
  /\ ~MicrotaskPending
  /\ Due(pf[c].copyTimer)
  /\ Reject(c, [pf[c] EXCEPT !.copyTimer = NoTimer,
                             !.copyProc = IF @ = "running" THEN "killed" ELSE @],
            "Copy timeout", clipboard, clipOk)
  /\ UNCHANGED <<now, jumps, app, started>>
  /\ UNCHANGED notPaste

\* pasteProcess.on('close'), lines 204-211.  osascript that exits with 0 has
\* sent Cmd+V: the application received what the clipboard held.
PasteClose(c, code, clipOk) ==
  /\ ~MicrotaskPending
  /\ pf[c].pasteProc = "running"
  /\ IF code = 0
       THEN /\ Resolve(c, [pf[c] EXCEPT !.pasteProc = "exited",
                                        !.delivered = @ + 1], clipboard)
            /\ app' = Append(app, clipboard)
       ELSE /\ Reject(c, [pf[c] EXCEPT !.pasteProc = "exited"], "Paste failed",
                      clipboard, clipOk)
            /\ app' = app
  /\ UNCHANGED <<now, jumps, started>>
  /\ UNCHANGED notPaste

\* The paste timer, lines 214-217; never cleared either.
PasteTimeout(c, clipOk) ==
  /\ ~MicrotaskPending
  /\ Due(pf[c].pasteTimer)
  /\ Reject(c, [pf[c] EXCEPT !.pasteTimer = NoTimer,
                             !.pasteProc = IF @ = "running" THEN "killed" ELSE @],
            "Paste timeout", clipboard, clipOk)
  /\ UNCHANGED <<now, jumps, app, started>>
  /\ UNCHANGED notPaste

\* scheduleClipboardWrite's timer, lines 237-245; a failing write is swallowed.
ClipboardWrite(c, clipOk) ==
  /\ ~MicrotaskPending
  /\ Due(pf[c].writeTimer)
  /\ pf' = [pf EXCEPT ![c] = [@ EXCEPT !.writeTimer = NoTimer,
                                       !.written = IF clipOk THEN "ok" ELSE "failed"]]
  /\ clipboard' = IF clipOk THEN pf[c].smart ELSE clipboard
  /\ UNCHANGED <<now, jumps, lastPasteTime, lastPastedText, app, started>>
  /\ UNCHANGED notPaste

\* The native module puts back what the clipboard held before its paste, at
\* some moment within RESTORE_MAX of the paste (lines 42-43, 232-236).
Restore(c) ==
  /\ ~MicrotaskPending
  /\ pf[c].restoreBy # NoTimer
  /\ pf' = [pf EXCEPT ![c].restoreBy = NoTimer]
  /\ clipboard' = pf[c].saved
  /\ UNCHANGED <<now, jumps, lastPasteTime, lastPastedText, app, started>>
  /\ UNCHANGED notPaste

TimersOf(r) == {r.copyTimer, r.pasteTimer, r.writeTimer, r.restoreBy} \ {NoTimer}

Running == \E c \in PasteCalls : pf[c].copyProc = "running" \/ pf[c].pasteProc = "running"
PendingTimers == UNION {TimersOf(pf[c]) : c \in PasteCalls}
NoneDue == \A t \in PendingTimers : t > now

\* Time passes by one Tick while a subprocess runs: no continuation is queued
\* and no timer is due.
TickClock ==
  /\ ~MicrotaskPending
  /\ Running
  /\ NoneDue
  /\ now' = now + Tick
  /\ UNCHANGED <<jumps, lastPasteTime, lastPastedText, clipboard, app, started, pf>>
  /\ UNCHANGED notPaste

\* With no subprocess running, time passes until the next timer is due.
TimerClock ==
  /\ ~MicrotaskPending
  /\ ~Running
  /\ PendingTimers # {}
  /\ NoneDue
  /\ now' = CHOOSE t \in PendingTimers : \A u \in PendingTimers : t <= u
  /\ UNCHANGED <<jumps, lastPasteTime, lastPastedText, clipboard, app, started, pf>>
  /\ UNCHANGED notPaste

\* A long period in which nothing is pending: no timer, no subprocess, no
\* continuation.
IdleClock ==
  /\ ~MicrotaskPending
  /\ ~Running
  /\ PendingTimers = {}
  /\ jumps < MaxJumps
  /\ jumps' = jumps + 1
  /\ now' = now + LongJump
  /\ UNCHANGED <<lastPasteTime, lastPastedText, clipboard, app, started, pf>>
  /\ UNCHANGED notPaste

PasteNext ==
  \/ \E c \in PasteCalls, text \in Texts, nat \in NativeOutcomes : PasteFast(c, text, nat)
  \/ \E c \in PasteCalls, clipOk \in BOOLEAN : NativeResume(c, clipOk)
  \/ \E c \in PasteCalls, code \in {0, 1}, clipOk \in BOOLEAN : CopyClose(c, code, clipOk)
  \/ \E c \in PasteCalls, clipOk \in BOOLEAN : CopyTimeout(c, clipOk)
  \/ \E c \in PasteCalls, code \in {0, 1}, clipOk \in BOOLEAN : PasteClose(c, code, clipOk)
  \/ \E c \in PasteCalls, clipOk \in BOOLEAN : PasteTimeout(c, clipOk)
  \/ \E c \in PasteCalls, clipOk \in BOOLEAN : ClipboardWrite(c, clipOk)
  \/ \E c \in PasteCalls : Restore(c)
  \/ TickClock
  \/ TimerClock
  \/ IdleClock

\* ------------------------------------------------- claims on pasteFast
PasteSession == <<lastPasteTime, lastPastedText>>

\* Call c completes successfully in this step, having pasted a text.
Completes(c) == pf[c].pc # "returned" /\ pf'[c].pc = "returned" /\ pf'[c].smart # << >>

\* Call c throws in this step.
Throws(c) == pf[c].pc # "threw" /\ pf'[c].pc = "threw"

\* C10: PasteSession changes only in the step in which a pasteFast call
\* completes successfully, every such step sets lastPastedText to that call's
\* formatted text and lastPasteTime to the clock at completion, and the step
\* in which a call throws leaves both fields as they were; so no step of a
\* call that ends by throwing has modified PasteSession.
C10_SessionOnlyOnSuccess ==
  [][ /\ PasteSession' # PasteSession => \E c \in PasteCalls : Completes(c)
      /\ \A c \in PasteCalls :
           Completes(c) => /\ lastPastedText' = pf'[c].smart
                           /\ lastPasteTime' = now'
                           /\ pf'[c].endTime = now'
      /\ \A c \in PasteCalls : Throws(c) => PasteSession' = PasteSession ]_vars

\* A first call returned after pasting and set the session; a later call,
\* formatted differently from its raw text, threw and the session still holds
\* the first call's text and completion time.
C10_SuccessThenThrow ==
  \E c, d \in PasteCalls :
    /\ c < d
    /\ pf[c].pc = "returned"
    /\ pf[c].smart # << >>
    /\ pf[d].pc = "threw"
    /\ pf[d].smart # pf[d].text
    /\ pf[d].endTime > pf[c].endTime
    /\ lastPastedText = pf[c].smart
    /\ lastPasteTime = pf[c].endTime

\* C11: a pasteFast call that returned after formatting a text has delivered
\* a paste to the application, and a call that threw has delivered none, now
\* or at any later moment.
C11_OutcomeTruthful ==
  \A c \in PasteCalls :
    /\ (pf[c].pc = "returned" /\ pf[c].smart # << >>) => pf[c].delivered >= 1
    /\ pf[c].pc = "threw" => pf[c].delivered = 0

\* C12: a subprocess never runs past its deadline (200 ms for the copy, 500 ms
\* for the paste), and a call whose copy subprocess was killed has failed with
\* the copy-timeout error, one whose paste subprocess was killed with the
\* paste-timeout error.
C12_TimeoutsKillAndFail ==
  \A c \in PasteCalls :
    /\ pf[c].copyProc = "running" => (pf[c].copyTimer # NoTimer /\ now <= pf[c].copyTimer)
    /\ pf[c].pasteProc = "running" => (pf[c].pasteTimer # NoTimer /\ now <= pf[c].pasteTimer)
    /\ pf[c].copyProc = "killed" => (pf[c].pc = "threw" /\ pf[c].error = "Copy timeout")
    /\ pf[c].pasteProc = "killed" => (pf[c].pc = "threw" /\ pf[c].error = "Paste timeout")

\* C13: when the copy subprocess exited with 0 before its 200 ms and the paste
\* subprocess exits with 0 within 500 ms of its own spawn, the call returns
\* at that moment, however long ago the copy was spawned.
C13_IndependentDeadlines ==
  [][ \A c \in PasteCalls :
        ( /\ pf[c].copyExit = "intime"
          /\ pf[c].pasteProc = "running"
          /\ now <= pf[c].pasteTimer
          /\ pf'[c].pasteProc = "exited"
          /\ pf'[c].delivered = pf[c].delivered + 1 )
        => pf'[c].pc = "returned" ]_vars

\* C14: a call whose native paste reported failure (module present, no text
\* input focused) throws NO_TEXT_INPUT once it resumes, and has spawned no
\* subprocess: the error is not swallowed and the fallback is not attempted.
C14_NoInputSurfaces ==
  \A c \in PasteCalls :
    (pf[c].nat = "noInput" /\ pf[c].pc # "nativeAwait")
      => /\ pf[c].pc = "threw"
         /\ pf[c].error = "NO_TEXT_INPUT"
         /\ pf[c].promise = "none"
         /\ pf[c].copyProc = "none"
         /\ pf[c].pasteProc = "none"

\* A call met a native paste that reported failure and has thrown.
C14_NoInputThrown ==
  \E c \in PasteCalls : pf[c].nat = "noInput" /\ pf[c].pc = "threw"

FallbackEntered(c) == pf[c].promise # "none" \/ pf[c].copyProc # "none"

PasteErrors == {"NO_TEXT_INPUT", "Copy failed", "Copy timeout", "Paste failed", "Paste timeout"}

\* The error the paste attempt of call c ends with in this step: NO_TEXT_INPUT
\* out of tryNativePaste, or the reason its promise is rejected with.
Originating(c) ==
  IF pf[c].pc = "nativeAwait" THEN "NO_TEXT_INPUT" ELSE pf'[c].promise

\* C16: in the step in which a call throws, the backup write of the formatted
\* text has been attempted, the clipboard holds the formatted text unless that
\* write failed, and the error thrown is the originating paste error, also
\* when the write failed.
C16_BackupThenRethrow ==
  [][ \A c \in PasteCalls :
        Throws(c) => /\ pf'[c].backup \in {"written", "failed"}
                     /\ pf'[c].backup = "written" => clipboard' = pf[c].smart
                     /\ pf'[c].error \in PasteErrors
                     /\ pf'[c].error = Originating(c) ]_vars

\* One call threw after its backup write failed, another after a backup write
\* that replaced what the clipboard held.
C16_BothBackups ==
  \E c, d \in PasteCalls :
    /\ pf[c].pc = "threw" /\ pf[c].backup = "failed" /\ pf[c].error \in PasteErrors
    /\ pf[d].pc = "threw" /\ pf[d].backup = "written" /\ clipboard = pf[d].smart

\* Call c is the only pasteFast call made.
Alone(c) == \A d \in PasteCalls \ {c} : pf[d].pc = "unused"

\* Exactly one write is scheduled by a successful call, 2000 ms after its
\* completion.
OneWriteScheduled(c) ==
  (pf[c].pc = "returned" /\ pf[c].smart # << >> /\ pf[c].written = "none")
    => pf[c].writeTimer = pf[c].endTime + CLIPBOARD_DELAY

sampleRate == 16000
bytesPerSample == 2
minDurationMs == 1100

\* Math.ceil(a / b) for positive integers.
Ceil(a, b) == (a + b - 1) \div b

minSamples == Ceil(minDurationMs * sampleRate, 1000)
minBytes == minSamples * bytesPerSample

\* Bound: runs in an input buffer.
MaxRuns == 2

Bytes == {0, 1, 255}
RunLengths == {1, 2, minSamples - 1, minSamples, minBytes - 2, minBytes - 1,
               minBytes, minBytes + 1}
Runs == [byte : Bytes, count : RunLengths]
Buffers == UNION {[1..n -> Runs] : n \in 0..MaxRuns}

\* buffer.length
RECURSIVE BufLen(_)
BufLen(b) == IF b = << >> THEN 0 ELSE Head(b).count + BufLen(Tail(b))

\* The first n bytes of b, and b without its first n bytes.
RECURSIVE Take(_, _)
Take(b, n) ==
  IF n <= 0 \/ b = << >> THEN << >>
  ELSE IF Head(b).count <= n
         THEN <<Head(b)>> \o Take(Tail(b), n - Head(b).count)
         ELSE <<[byte |-> Head(b).byte, count |-> n]>>

RECURSIVE Drop(_, _)
Drop(b, n) ==
  IF n <= 0 \/ b = << >> THEN b
  ELSE IF Head(b).count <= n
         THEN Drop(Tail(b), n - Head(b).count)
         ELSE <<[byte |-> Head(b).byte, count |-> Head(b).count - n]>> \o Tail(b)

\* Buffer.alloc(size, fill)
Alloc(size, fill) ==
  IF size = 0 THEN << >> ELSE <<[byte |-> fill, count |-> size]>>

Min(a, b) == IF a <= b THEN a ELSE b

\* source.copy(target, 0): the target after the copy; as many bytes are
\* copied as fit.
Copy(source, target) ==
  LET n == Min(BufLen(source), BufLen(target))
  IN Take(source, n) \o Drop(target, n)

\* A test that pads whatever the length.
NeedsPadding_Always(buffer) == TRUE

\* Line 391: audioBuffer.length < minBytes
NeedsPadding(buffer) == BufLen(buffer) < minBytes

\* Lines 390-397.
ProcessBuffer(buffer) ==
  IF NeedsPadding(buffer)
    THEN Copy(buffer, Alloc(minBytes, 0))
    ELSE buffer

\* target with the bytes written into it at offset.
WriteAt(target, offset, bytes) ==
  Take(target, offset) \o bytes \o Drop(target, offset + BufLen(bytes))

\* The bytes given by their values, one run each.
AsBytes(values) == [i \in DOMAIN values |-> [byte |-> values[i], count |-> 1]]

\* The character codes of the four chunk tags.
RIFF == <<82, 73, 70, 70>>
WAVE == <<87, 65, 86, 69>>
FMT == <<102, 109, 116, 32>>
DATA == <<100, 97, 116, 97>>

\* buf.writeUInt32LE(v, offset) and buf.writeUInt16LE(v, offset): the bytes.
UInt32LE(v) ==
  <<v % 256, (v \div 256) % 256, (v \div 65536) % 256, (v \div 16777216) % 256>>
UInt16LE(v) == <<v % 256, (v \div 256) % 256>>

headerSize == 44

\* pcmToWav, lines 547-579, write by write.
pcmToWav(pcmBuffer, rate, numChannels, bitsPerSample) ==
  LET byteRate == rate * numChannels * (bitsPerSample \div 8)
      blockAlign == numChannels * (bitsPerSample \div 8)
      dataSize == BufLen(pcmBuffer)
      fileSize == headerSize + dataSize - 8
      w0 == Alloc(headerSize + dataSize, 0)
      w1 == WriteAt(w0, 0, AsBytes(RIFF))
      w2 == WriteAt(w1, 4, AsBytes(UInt32LE(fileSize)))
      w3 == WriteAt(w2, 8, AsBytes(WAVE))
      w4 == WriteAt(w3, 12, AsBytes(FMT))
      w5 == WriteAt(w4, 16, AsBytes(UInt32LE(16)))
      w6 == WriteAt(w5, 20, AsBytes(UInt16LE(1)))
      w7 == WriteAt(w6, 22, AsBytes(UInt16LE(numChannels)))
      w8 == WriteAt(w7, 24, AsBytes(UInt32LE(rate)))
      w9 == WriteAt(w8, 28, AsBytes(UInt32LE(byteRate)))
      w10 == WriteAt(w9, 32, AsBytes(UInt16LE(blockAlign)))
      w11 == WriteAt(w10, 34, AsBytes(UInt16LE(bitsPerSample)))
      w12 == WriteAt(w11, 36, AsBytes(DATA))
      w13 == WriteAt(w12, 40, AsBytes(UInt32LE(dataSize)))
  IN WriteAt(w13, headerSize, pcmBuffer)

\* An Int16Array element read as an unsigned value.
ToInt16_Unsigned(lo, hi) == lo + 256 * hi

\* An Int16Array element: two bytes, low byte first, two's complement.
ToInt16(lo, hi) ==
  IF lo + 256 * hi >= 32768 THEN lo + 256 * hi - 65536 ELSE lo + 256 * hi

\* new Int16Array(buffer.buffer, byteOffset, length / 2), line 428: the
\* elements as runs [value, count]; a last odd byte belongs to no element.
RECURSIVE Int16Array(_)
Int16Array(b) ==
  IF BufLen(b) < 2 THEN << >>
  ELSE IF Head(b).count >= 2
    THEN <<[value |-> ToInt16(Head(b).byte, Head(b).byte),
            count |-> Head(b).count \div 2]>>
           \o Int16Array(Drop(b, 2 * (Head(b).count \div 2)))
    ELSE <<[value |-> ToInt16(Head(b).byte, Head(Tail(b)).byte), count |-> 1]>>
           \o Int16Array(Drop(b, 2))

\* Lines 429-432: float32Array[i] = int16Array[i] / 32768.0, each value kept
\* as the fraction num / den (exact in a float32).
Float32Array(ints) ==
  [i \in DOMAIN ints |-> [num |-> ints[i].value, den |-> 32768, count |-> ints[i].count]]

PadInit ==
  /\ audioBuffer = << >>
  /\ processedBuffer = None
  /\ wavBuffer = None
  /\ float32Array = None

\* transcribeFromBuffer, lines 384-400 and 427-432, for one audioBuffer.
PadBuffer(buffer) ==
  /\ processedBuffer = None
  /\ audioBuffer' = buffer
  /\ processedBuffer' = Some(ProcessBuffer(buffer))
  /\ wavBuffer' = Some(pcmToWav(ProcessBuffer(buffer), 16000, 1, 16))
  /\ float32Array' = Some(Float32Array(Int16Array(ProcessBuffer(buffer))))
  /\ UNCHANGED notPad

PadNext == \E buffer \in Buffers : PadBuffer(buffer)

\* ------------------------------------------------- claims on the padding
\* The bytes of b with adjacent runs of one value merged: two buffers hold
\* the same bytes exactly when these are equal.
RECURSIVE Merged(_)
Merged(b) ==
  IF Len(b) < 2 THEN b
  ELSE LET rest == Merged(Tail(b))
       IN IF Head(b).byte = Head(rest).byte
            THEN <<[byte |-> Head(b).byte, count |-> Head(b).count + Head(rest).count]>>
                   \o Tail(rest)
            ELSE <<Head(b)>> \o rest

SameBytes(a, b) == Merged(a) = Merged(b)

\* Every byte of b is zero.
AllZero(b) == \A i \in 1..Len(b) : b[i].byte = 0

\* C18: a buffer shorter than 35 200 bytes comes out exactly 35 200 bytes
\* long, its own bytes first and only zero bytes after them; a buffer of at
\* least 35 200 bytes comes out as it went in; the output is never shorter
\* than the input.
C18_PaddedToMinimum ==
  processedBuffer # None =>
    LET n == BufLen(audioBuffer)
        out == processedBuffer[1]
    IN /\ minSamples = 17600 /\ minBytes = 35200
       /\ n < 35200 =>
            /\ BufLen(out) = 35200
            /\ SameBytes(Take(out, n), audioBuffer)
            /\ AllZero(Drop(out, n))
       /\ n >= 35200 => out = audioBuffer
       /\ BufLen(out) >= n

\* An odd-length buffer one byte short of the minimum, ending in a non-zero
\* byte, has been padded by one zero byte.
C18_OneByteShort ==
  /\ processedBuffer # None
  /\ BufLen(audioBuffer) = minBytes - 1
  /\ audioBuffer[Len(audioBuffer)].byte # 0
  /\ BufLen(processedBuffer[1]) = minBytes
  /\ Drop(processedBuffer[1], minBytes - 1) = <<[byte |-> 0, count |-> 1]>>

\* ------------------------------------------------- claims on the two forms
\* The byte at index i of b, and the little-endian numbers read from b.
ByteAt(b, i) == Take(Drop(b, i), 1)[1].byte
ReadUInt16LE(b, i) == ByteAt(b, i) + 256 * ByteAt(b, i + 1)
ReadUInt32LE(b, i) == ReadUInt16LE(b, i) + 65536 * ReadUInt16LE(b, i + 2)

\* The 16-bit sample whose two bytes start at index i of b.
SampleAt(b, i) ==
  LET u == ReadUInt16LE(b, i) IN IF u >= 32768 THEN u - 65536 ELSE u

\* The number of samples before run k of the float sequence f.
RECURSIVE SamplesBefore(_, _)
SamplesBefore(f, k) == IF k = 1 THEN 0 ELSE SamplesBefore(f, k - 1) + f[k - 1].count

\* Run k of f stands for the samples of b it covers: its first and its last
\* sample are the ones of b at those places, and between them the bytes of b
\* are all the same.
RunMatches(f, k, b) ==
  LET first == SamplesBefore(f, k)
      last == first + f[k].count - 1
      bytes == Merged(Take(Drop(b, 2 * first), 2 * f[k].count))
  IN /\ f[k].count >= 1
     /\ f[k].den = 32768
     /\ f[k].num = SampleAt(b, 2 * first)
     /\ f[k].num = SampleAt(b, 2 * last)
     /\ f[k].count > 1 => Len(bytes) = 1

\* C30: the WAV output is a 44-byte header (data size = padded length, RIFF
\* size = padded length + 36, PCM, mono, 16 000 Hz, 16 bits) followed by the
\* padded bytes unchanged; the float sequence has padded length / 2 samples,
\* each the 16-bit sample at its place divided by 32768 and within [-1, 1].
C30_BothFormsLossless ==
  processedBuffer # None =>
    LET pcm == processedBuffer[1]
        wav == wavBuffer[1]
        f == float32Array[1]
        n == BufLen(pcm)
    IN /\ BufLen(wav) = 44 + n
       /\ SameBytes(Drop(wav, 44), pcm)
       /\ SameBytes(Take(wav, 4), AsBytes(<<82, 73, 70, 70>>))
       /\ ReadUInt32LE(wav, 4) = n + 36
       /\ ReadUInt16LE(wav, 20) = 1
       /\ ReadUInt16LE(wav, 22) = 1
       /\ ReadUInt32LE(wav, 24) = 16000
       /\ ReadUInt32LE(wav, 28) = 32000
       /\ ReadUInt16LE(wav, 32) = 2
       /\ ReadUInt16LE(wav, 34) = 16
       /\ ReadUInt32LE(wav, 40) = n
       /\ SamplesBefore(f, Len(f) + 1) = n \div 2
       /\ \A k \in DOMAIN f :
            /\ RunMatches(f, k, pcm)
            /\ 0 - f[k].den <= f[k].num /\ f[k].num <= f[k].den

\* A short buffer of 0xFF bytes was padded: its samples are -1/32768, the
\* padding's are 0, and the WAV declares 35 200 data bytes.
C30_NegativeSamplesPadded ==
  /\ processedBuffer # None
  /\ audioBuffer = <<[byte |-> 255, count |-> 2]>>
  /\ float32Array[1] = <<[num |-> 0 - 1, den |-> 32768, count |-> 1],
                         [num |-> 0, den |-> 32768, count |-> minSamples - 1]>>
  /\ ReadUInt32LE(wavBuffer[1], 40) = minBytes

\* ------------------------------------------------- SmartFormatter, one call
\* Bound: length of the texts built from FmtChars.
MaxTextLen == 3

FmtChars == {"A", "I", "b", " ", "\"", "."}

LongTexts ==
  { <<"M", "o", "n", "d", "a", "y">>,
    <<"M", "o", "n", "d", "a", "y", ",", "b">>,
    <<"M", "o", "n", "d", "a", "y", "s">>,
    <<"T", "h", "e", "r", "e">> }

\* pasteFast formats only a text that is not blank (line 24).
FmtTexts ==
  {t \in UNION {[1..n -> FmtChars] : n \in 1..MaxTextLen} \cup LongTexts :
     Trim(t) # << >>}

\* What an earlier successful paste left in lastPastedText.
FmtLastTexts ==
  { <<"b">>, <<"b", ".">>, <<"b", "!", "\"">>, <<"b", "?", " ">>,
    <<"b", ".", "b">>, <<"b", "\"">>, <<" ", "W", "o", "r", "l", "d">>,
    <<"b", ".", "\"", " ">> }

\* The PasteSession of the call: the initial one, or one an earlier
\* successful paste at StartTime has set.
FmtSessions ==
  {[lastTime |-> 0, lastText |-> << >>]}
    \cup [lastTime : {StartTime}, lastText : FmtLastTexts]

\* The system clock set back after the last paste: Date.now() is wall-clock
\* time and may then read less than lastPasteTime.
ClockSetBack == 0 - (StartTime \div 2)

\* The time since the session's lastPasteTime at which the call reads the clock.
FmtElapsed ==
  {ClockSetBack, 0, SPACE_TIMEOUT \div 2, SPACE_TIMEOUT - 1, SPACE_TIMEOUT,
   SPACE_TIMEOUT + 1}

NoFormat == [text |-> << >>, clock |-> 0, lastTime |-> 0, lastText |-> << >>]

FormatInit ==
  /\ fmtIn = NoFormat
  /\ fmtOut = None

\* One call addSimpleSmartSpacing(text), lines 82-103.
Format(text, session, elapsed) ==
  /\ fmtOut = None
  /\ session.lastTime + elapsed > 0
  /\ fmtIn' = [text |-> text, clock |-> session.lastTime + elapsed,
               lastTime |-> session.lastTime, lastText |-> session.lastText]
  /\ fmtOut' = Some(addSimpleSmartSpacing(text, session.lastTime + elapsed,
                                          session.lastTime, session.lastText))
  /\ UNCHANGED notFormat

FormatNext ==
  \E text \in FmtTexts, session \in FmtSessions, elapsed \in FmtElapsed :
    Format(text, session, elapsed)

\* ------------------------------------------------- claims on the formatter
\* The session of the call is live: an earlier successful paste exists and
\* less than 10 000 ms have passed since it.
Live == fmtIn.lastTime > 0 /\ fmtIn.clock - fmtIn.lastTime < 10000

\* out is text with one space before it, the characters after the first as
\* they were.
Spaced(text, out) ==
  /\ Len(out) = Len(text) + 1
  /\ out[1] = " "
  /\ SubSeq(out, 3, Len(out)) = SubSeq(text, 2, Len(text))

\* C19: in a live session the result is the text with exactly one space
\* prepended, its first character the same letter in either case; otherwise
\* (no earlier paste, or 10 000 ms or more elapsed) the result is the text.
C19_SpaceIffLive ==
  fmtOut # None =>
    LET text == fmtIn.text
        out == fmtOut[1]
    IN IF Live
         THEN /\ Spaced(text, out)
              /\ ToLowerChar(out[2]) = ToLowerChar(text[1])
         ELSE out = text

\* A call 9 999 ms after the last paste got its space and a lower-cased
\* first letter.
C19_LiveAtWindowEnd ==
  /\ fmtOut # None
  /\ fmtIn.lastTime > 0
  /\ fmtIn.clock - fmtIn.lastTime = SPACE_TIMEOUT - 1
  /\ fmtOut[1] # <<" ">> \o fmtIn.text
  /\ Spaced(fmtIn.text, fmtOut[1])

\* No letter of w is lower-case.
FullyUpper(w) == \A i \in 1..Len(w) : \A j \in DOMAIN LowerAZ : w[i] # LowerAZ[j]

\* The exceptions of the capitalisation rule.
CapsException(text) ==
  \/ FirstWord(text) \in properNouns
  \/ text[1] \in {"\"", "'"}
  \/ FullyUpper(FirstWord(text)) /\ Len(FirstWord(text)) > 1

\* C20: in a live session whose lastPastedText does not end a sentence, the
\* first character of the text comes out lower-cased exactly when it is an
\* upper-case letter (A-Z) and no exception applies; every other character
\* comes out as it was, after the prepended space.
C20_LowercaseUnlessException ==
  (fmtOut # None /\ Live /\ ~EndsWithSentence(fmtIn.lastText)) =>
    LET text == fmtIn.text
        out == fmtOut[1]
        lowered == out[2] # text[1] /\ out[2] = ToLowerChar(text[1])
    IN /\ Spaced(text, out)
       /\ lowered <=> (IsUpperAZ(text[1]) /\ ~CapsException(text))
       /\ ~lowered => out[2] = text[1]

\* "There" pasted 5000 ms after " World" became " there".
C20_ThereLowered ==
  /\ fmtOut # None
  /\ fmtIn.lastText = <<" ", "W", "o", "r", "l", "d">>
  /\ fmtIn.clock - fmtIn.lastTime = SPACE_TIMEOUT \div 2
  /\ fmtIn.text = <<"T", "h", "e", "r", "e">>
  /\ fmtOut[1] = <<" ", "t", "h", "e", "r", "e">>

\* last ends with '.', '!' or '?', optionally followed by a closing quote and
\* whitespace.
EndsSentence(last) ==
  LET t == TrimEnd(last)
      u == IF t # << >> /\ t[Len(t)] = "\"" THEN SubSeq(t, 1, Len(t) - 1) ELSE t
  IN u # << >> /\ u[Len(u)] \in {".", "!", "?"}

\* C21: in a live session whose lastPastedText ends a sentence, the result is
\* the text with one space before it and every character, the first letter's
\* case included, as it was.
C21_SentenceKeepsCase ==
  (fmtOut # None /\ Live /\ EndsSentence(fmtIn.lastText)) =>
    fmtOut[1] = <<" ">> \o fmtIn.text

\* After a lastPastedText ending in '!' and a closing quote, a text whose
\* first letter would otherwise be lower-cased kept its capital.
C21_CapitalKeptAfterQuote ==
  /\ fmtOut # None
  /\ Live
  /\ fmtIn.lastText = <<"b", "!", "\"">>
  /\ fmtIn.text = <<"A", "b">>
  /\ fmtOut[1] = <<" ", "A", "b">>

\* Call c formats its text in this step.
Formats(c) == pf[c].pc = "unused" /\ pf'[c].pc # "unused" /\ pf'[c].smart # << >>

\* C22: the step in which a call formats its text leaves lastPasteTime and
\* lastPastedText as they were, and the result is what formatting the same
\* text again, at the same clock reading and with the session as that step
\* left it, gives.
C22_FormatReadsOnly ==
  [][ \A c \in PasteCalls :
        Formats(c) =>
          /\ PasteSession' = PasteSession
          /\ pf'[c].smart =
               addSimpleSmartSpacing(pf'[c].text, now', lastPasteTime', lastPastedText') ]_vars

\* A second call formatted its text in the live session of the first (space
\* added, first letter lower-cased) and the session is still the first
\* call's.
C22_FormattedInSession ==
  \E c, d \in PasteCalls :
    /\ c < d
    /\ pf[c].pc = "returned"
    /\ pf[d].pc = "nativeAwait"
    /\ pf[d].smart # pf[d].text
    /\ lastPastedText = pf[c].smart
    /\ lastPasteTime = pf[c].endTime

\* ------------------------------------------------- claims on the cache
LoadedContexts == {h \in DOMAIN contexts : contexts[h].state = "Loaded"}

\* C4: single-resident policy: after any sequence of preloadModel,
\* transcribeFromBuffer and freeModel calls at most one native context is
\* Loaded, and it is the cached one; the context of a previously resident
\* model is Freed by the time the context of a different model exists.
C4_SingleResident ==
  /\ Cardinality(LoadedContexts) <= 1
  /\ LoadedContexts \subseteq {whisperHandle}

\* C4 witness: a model was loaded while a different one was resident: the
\* older context is Freed and the newer one is Loaded and cached.
C4_Replaced ==
  \E h \in DOMAIN contexts :
    /\ h > 1
    /\ contexts[h].state = "Loaded"
    /\ contexts[h - 1].state = "Freed"
    /\ contexts[h - 1].model # contexts[h].model
    /\ whisperHandle = h

\* ------------------------------------------------- the whisper worker
\* Bound: messages received per run.
MaxMessages == 3

NoPath == "null"
MessageIds == {"1", "2"}
MessageTypes == {"init", "transcribe", "unload", "status", "ping"}

\* What a message's payload leads to: no payload at all (payload.modelPath
\* throws a TypeError), a file that does not exist, or one that does.
Payloads == {"undefined", "noFile", "file"}

ModelPath == "model.bin"

WorkerInit ==
  /\ isModelLoaded = FALSE
  /\ currentModelPath = NoPath
  /\ transcribeFunction = FALSE
  /\ received = << >>
  /\ handling = << >>
  /\ sentResponses = << >>
  /\ exited = FALSE

\* sendResponse, lines 681-685: process.send(response); msg records the
\* message the handler was invoked for.
sendResponse(m, workerResponse) ==
  Append(sentResponses, [msg |-> m] @@ workerResponse)

Result(id, payload) == [type |-> "result", id |-> id, payload |-> payload]

\* A catch block that logs the error and sends nothing.
OnError_Silent(id, error) == << >>

\* The catch block, lines 802-805: one error response with the message's id.
OnError(id, error) == <<[type |-> "error", id |-> id, error |-> error]>>

\* The responses after the handler of message m threw.
Caught(m, id, error) ==
  IF OnError(id, error) = << >>
    THEN sentResponses
    ELSE sendResponse(m, OnError(id, error)[1])

\* unloadModel, lines 761-766.
unloadModel ==
  /\ isModelLoaded' = FALSE
  /\ currentModelPath' = NoPath
  /\ transcribeFunction' = FALSE

\* transcribeAudio's test at line 713.
NotLoaded == ~isModelLoaded \/ ~transcribeFunction \/ currentModelPath = NoPath

\* process.on('message'), lines 769-807, from the message's arrival to the
\* handler's first real suspension (an import or an engine call) or its end.
Receive(type, id, payload) ==
  LET m == Len(received) + 1
      done(rs) == /\ sentResponses' = rs
                  /\ handling' = Append(handling, "done")
      waits(at) == /\ sentResponses' = sentResponses
                   /\ handling' = Append(handling, at)
  IN /\ ~exited
     /\ m <= MaxMessages
     /\ received' = Append(received, [type |-> type, id |-> id])
     /\ CASE type = "init" ->
               /\ IF payload = "undefined"
                    THEN done(Caught(m, id, "TypeError"))
                    ELSE IF payload = "noFile"
                      THEN done(Caught(m, id, "Model file not found"))
                      ELSE waits("import")
               /\ UNCHANGED <<isModelLoaded, currentModelPath, transcribeFunction>>
          [] type = "transcribe" ->
               /\ IF payload = "undefined"
                    THEN done(Caught(m, id, "TypeError"))
                    ELSE IF NotLoaded
                      THEN done(Caught(m, id, "Model not loaded"))
                      ELSE IF payload = "noFile"
                        THEN done(Caught(m, id, "Audio file not found"))
                        ELSE waits("engine")
               /\ UNCHANGED <<isModelLoaded, currentModelPath, transcribeFunction>>
          [] type = "unload" ->
               /\ unloadModel
               /\ done(sendResponse(m, Result(id, [success |-> TRUE])))
          [] type = "status" ->
               /\ done(sendResponse(m, Result(id, [isLoaded |-> isModelLoaded,
                                                modelPath |-> currentModelPath])))
               /\ UNCHANGED <<isModelLoaded, currentModelPath, transcribeFunction>>
          [] OTHER ->
               /\ done(sendResponse(m, [type |-> "error", id |-> id,
                                        error |-> "Unknown message type"]))
               /\ UNCHANGED <<isModelLoaded, currentModelPath, transcribeFunction>>
     /\ UNCHANGED exited
     /\ UNCHANGED notWorker

\* initializeModel resumes after `await import('whisper-node-addon')`,
\* lines 696-700, and the handler sends its response.
ImportSettles(m, ok) ==
  /\ ~exited
  /\ m \in DOMAIN handling
  /\ handling[m] = "import"
  /\ handling' = [handling EXCEPT ![m] = "done"]
  /\ IF ok
       THEN /\ transcribeFunction' = TRUE
            /\ currentModelPath' = ModelPath
            /\ isModelLoaded' = TRUE
            /\ sentResponses' = sendResponse(m, Result(received[m].id, [success |-> TRUE]))
       ELSE /\ sentResponses' = Caught(m, received[m].id, "import failed")
            /\ UNCHANGED <<isModelLoaded, currentModelPath, transcribeFunction>>
  /\ UNCHANGED <<received, exited>>
  /\ UNCHANGED notWorker

\* transcribeAudio resumes after `await transcribeFunction(...)`, lines
\* 723-758, and the handler sends the text or the error.
EngineSettles(m, ok) ==
  /\ ~exited
  /\ m \in DOMAIN handling
  /\ handling[m] = "engine"
  /\ handling' = [handling EXCEPT ![m] = "done"]
  /\ sentResponses' = IF ok THEN sendResponse(m, Result(received[m].id, [text |-> "text"]))
                             ELSE Caught(m, received[m].id, "engine error")
  /\ UNCHANGED <<isModelLoaded, currentModelPath, transcribeFunction, received,
                 exited>>
  /\ UNCHANGED notWorker

\* process.on('SIGTERM'), lines 810-814: unloadModel(); process.exit(0).
Sigterm ==
  /\ ~exited
  /\ unloadModel
  /\ exited' = TRUE
  /\ UNCHANGED <<received, handling, sentResponses>>
  /\ UNCHANGED notWorker

WorkerNext ==
  \/ \E type \in MessageTypes, id \in MessageIds, payload \in Payloads :
        Receive(type, id, payload)
  \/ \E m \in 1..MaxMessages, ok \in BOOLEAN : ImportSettles(m, ok)
  \/ \E m \in 1..MaxMessages, ok \in BOOLEAN : EngineSettles(m, ok)
  \/ Sigterm

\* ------------------------------------------------- claims on the worker
\* The responses sent for message m.
Answers(m) == {i \in DOMAIN sentResponses : sentResponses[i].msg = m}

\* What has been sent for every message so far: a handler that has run to
\* its end, returning or throwing, has sent exactly one response; a handler
\* still suspended has sent none; and every response carries the id of the
\* message it answers.
OneResponseEach ==
  \A m \in DOMAIN received :
    /\ \A i \in Answers(m) : sentResponses[i].id = received[m].id
    /\ handling[m] = "done" => Cardinality(Answers(m)) = 1
    /\ handling[m] # "done" => Cardinality(Answers(m)) = 0

\* C37: every message the worker receives, of any type and whether its
\* handling succeeds or throws, produces exactly one response with the
\* message's id, however the handlers interleave: never a second response,
\* never another id, and the response does come as long as the process is
\* not ended by SIGTERM first.
C37_ExactlyOneResponse ==
  /\ []OneResponseEach
  /\ \A m \in 1..MaxMessages :
       [](Len(received) >= m => <>(exited \/ Cardinality(Answers(m)) = 1))

\* Three messages were answered out of order: a transcription that threw
\* was answered after the status request that arrived after it.
C37_AnsweredOutOfOrder ==
  /\ Len(received) = 3
  /\ received[1].type = "init" /\ received[2].type = "transcribe"
  /\ received[3].type = "status"
  /\ \A m \in 1..3 : handling[m] = "done"
  /\ sentResponses[2].msg = 3
  /\ sentResponses[3].msg = 2 /\ sentResponses[3].type = "error"
  /\ ~exited

\* ------------------------------------------------- NudgeConfigManager
\* Bound: recordTypingActivity calls per run.
MaxRecords == 4

\* Date.now() when the run starts, in milliseconds.
NudgeStart == 1000000

\* The break that ends a typing session, line 158: 5 * 60 * 1000 ms.
SessionBreak == 5 * 60 * 1000

\* Time between two recordTypingActivity calls: a keystroke a second later,
\* exactly the break, just over it, and twice as long.
Gaps == {1000, SessionBreak, SessionBreak + 1, 2 * SessionBreak}

\* loadActivity's defaultActivity, lines 68-81 (the typing fields).
defaultActivity ==
  [lastTypingTime |-> 0, typingStreakCount |-> 0, firstTypingTime |-> 0,
   typingSessionDuration |-> 0, nudgedInCurrentSession |-> FALSE]

NudgeInit ==
  /\ activity = defaultActivity
  /\ nudgeNow = NudgeStart
  /\ sinceLast = 0
  /\ records = 0

\* Line 156 as written: lastTypingTime was assigned `now` on line 154, so
\* the difference is taken against the new value.
timeSinceLastActivity(dateNow, a) == dateNow - a.lastTypingTime

\* recordTypingActivity, lines 152-173, called `gap` ms after the previous
\* call with the same activity object; `nudged` says whether the caller has
\* set nudgedInCurrentSession on it since.
recordTypingActivity(gap, nudged) ==
  LET dateNow == nudgeNow + gap
      a0 == [activity EXCEPT !.nudgedInCurrentSession = @ \/ nudged]
      a1 == [a0 EXCEPT !.lastTypingTime = dateNow]
      a2 == IF timeSinceLastActivity(dateNow, a1) > SessionBreak
              THEN [a1 EXCEPT !.firstTypingTime = dateNow,
                              !.typingSessionDuration = 0,
                              !.typingStreakCount = 0,
                              !.nudgedInCurrentSession = FALSE]
              ELSE a1
      a3 == [a2 EXCEPT !.typingStreakCount = @ + 1]
      a4 == IF a3.firstTypingTime = 0
              THEN [a3 EXCEPT !.firstTypingTime = dateNow]
              ELSE a3
  IN /\ records < MaxRecords
     /\ nudgeNow' = dateNow
     /\ activity' = [a4 EXCEPT !.typingSessionDuration = dateNow - a4.firstTypingTime]
     /\ sinceLast' = IF activity.lastTypingTime = 0 THEN 0
                                                    ELSE dateNow - activity.lastTypingTime
     /\ records' = records + 1
     /\ UNCHANGED notNudge

NudgeNext ==
  \E gap \in Gaps, nudged \in BOOLEAN : recordTypingActivity(gap, nudged)

\* ------------------------------------------------- claims on typing sessions
\* C38: when more than five minutes passed between the previously recorded
\* typing activity and this one, the call starts a new session: the streak
\* is 1, the session's duration 0, and nudgedInCurrentSession is cleared.
C38_BreakStartsNewSession ==
  (records >= 2 /\ sinceLast > SessionBreak) =>
    /\ activity.typingStreakCount = 1
    /\ activity.typingSessionDuration = 0
    /\ activity.nudgedInCurrentSession = FALSE

\* ------------------------------------------------- CloudCommandParserService
\* Bound: parseCommand calls per run.
MaxParses == 3

\* String.prototype.toLowerCase.
ToLowerCase(s) == [i \in 1..Len(s) |-> ToLowerChar(s[i])]

\* Spoken commands: three spellings of one command, and another command.
Commands == { <<"G", "o">>, <<" ", "g", "o", " ">>, <<"g", "o">>, <<"u", "p">> }

\* The ParsedIntent a backend may return, by its action.
Intents == {"play", "open"}

\* What awaiting parseWithAI can give: an intent, null, or a rejection.
ParseOutcomes == Intents \cup {"null", "throws"}

\* A cache key that keeps the command's case.
cacheKey_CaseKept(command) == Trim(command)

\* Line 24: command.toLowerCase().trim().
cacheKey(command) == Trim(ToLowerCase(command))

ParserInit ==
  /\ cache = << >>
  /\ parses = << >>
  /\ backendCalls = << >>

\* parseCommand, lines 21-31: up to the cache hit's return or the suspension
\* at `await this.parseWithAI(command)`.
ParseCommand(command) ==
  LET key == cacheKey(command)
  IN /\ Len(parses) < MaxParses
     /\ IF key \in DOMAIN cache
          THEN /\ parses' = Append(parses, [command |-> command, pc |-> "returned",
                                            result |-> cache[key]])
               /\ UNCHANGED backendCalls
          ELSE /\ parses' = Append(parses, [command |-> command, pc |-> "await",
                                            result |-> "none"])
               /\ backendCalls' = Append(backendCalls, command)
     /\ UNCHANGED cache
     /\ UNCHANGED notParser

\* parseCommand resumes, lines 31-40: a truthy result is cached and
\* returned; null, or a rejection caught at line 36, returns null.
ParseSettles(i, parsed) ==
  /\ i \in DOMAIN parses
  /\ parses[i].pc = "await"
  /\ IF parsed \in Intents
       THEN /\ cache' = (cacheKey(parses[i].command) :> parsed) @@ cache
            /\ parses' = [parses EXCEPT ![i].pc = "returned", ![i].result = parsed]
       ELSE /\ UNCHANGED cache
            /\ parses' = [parses EXCEPT ![i].pc = "returned", ![i].result = "null"]
  /\ UNCHANGED backendCalls
  /\ UNCHANGED notParser

ParserNext ==
  \/ \E command \in Commands : ParseCommand(command)
  \/ \E i \in 1..MaxParses, parsed \in ParseOutcomes : ParseSettles(i, parsed)

\* ------------------------------------------------- claims on the command cache
\* String.prototype.trim and toLowerCase as the claim means them, on the
\* commands of the model: the key of a command is "go" or "up".
Normalised(command) ==
  IF command = <<"u", "p">> THEN <<"u", "p">> ELSE <<"g", "o">>

\* A parseCommand call has just been made.
Called == Len(parses') = Len(parses) + 1

\* Call i has just ended in null.
Failed(i) ==
  /\ i \in DOMAIN parses
  /\ parses[i].pc = "await" /\ parses'[i].pc = "returned"
  /\ parses'[i].result = "null"

\* C39: the cache holds only intents that a backend returned for a command
\* with that lower-cased, trimmed key; a call whose key is cached returns
\* the cached intent and calls no backend; a call that ends in null, or
\* whose backend threw, leaves the cache as it was, so that a call whose key
\* is not cached sends its command to the backend.
C39_CacheHoldsSuccessesOnly ==
  [][ /\ \A k \in DOMAIN cache' :
           /\ cache'[k] \in Intents
           /\ \E i \in DOMAIN parses' :
                /\ Normalised(parses'[i].command) = k
                /\ parses'[i].pc = "returned"
                /\ parses'[i].result = cache'[k]
      /\ Called =>
           LET p == parses'[Len(parses')]
               k == Normalised(p.command)
           IN IF k \in DOMAIN cache
                THEN /\ backendCalls' = backendCalls
                     /\ p.pc = "returned" /\ p.result = cache[k]
                ELSE /\ backendCalls' = Append(backendCalls, p.command)
                     /\ p.pc = "await"
      /\ \A i \in 1..MaxParses : Failed(i) => cache' = cache
    ]_vars

\* "Go" went to the backend and failed, " go " went to the backend again and
\* was parsed, and "go" was then answered from the cache: two backend calls
\* for three parseCommand calls.
C39_RetriedThenCached ==
  /\ Len(parses) = 3
  /\ parses[1].command = <<"G", "o">> /\ parses[1].result = "null"
  /\ parses[2].command = <<" ", "g", "o", " ">> /\ parses[2].result \in Intents
  /\ parses[3].command = <<"g", "o">> /\ parses[3].pc = "returned"
  /\ parses[3].result = parses[2].result
  /\ backendCalls = << <<"G", "o">>, <<" ", "g", "o", " ">> >>

\* ------------------------------------------------- claims on overlapping calls
\* The deferred clipboard write of call c fires in this step.
WriteFires(c) == pf[c].written = "none" /\ pf'[c].written # "none"

\* Call d has put its text on the clipboard, by its deferred write or by its
\* failure backup.
OnClipboard(d) == pf[d].written = "ok" \/ pf[d].backup = "written"

\* C31: once a later pasteFast call has put its text on the clipboard, no
\* deferred write of an earlier call fires.
C31_NoStaleDeferredWrite ==
  [][ \A c, d \in PasteCalls :
        (c < d /\ OnClipboard(d)) => ~WriteFires(c) ]_vars

\* Call c's promise has not settled.
Unsettled(c) == pf[c].pc \notin {"unused", "returned", "threw"}

\* C32: when a call formats its text while an earlier call is unsettled
\* whose paste has already been delivered to the application, the
\* PasteSession it reads reflects that paste.
C32_OverlapSeesDeliveredPaste ==
  [][ \A c, d \in PasteCalls :
        (c < d /\ Formats(d) /\ Unsettled(c) /\ pf[c].delivered >= 1) =>
          /\ lastPastedText = pf[c].smart
          /\ lastPasteTime > 0 ]_vars

\* Call c was made with empty or whitespace-only text.
BlankCall(c) == pf'[c].pc # "unused" /\ Trim(pf'[c].text) = << >>

\* C36: pasteFast with empty or whitespace-only text returns at once and
\* has no effect, then or later: nothing is pasted, no subprocess or timer is
\* started, and the step leaves clipboard and PasteSession as they were.
C36_BlankTextNoEffect ==
  [][ \A c \in PasteCalls : BlankCall(c) =>
        /\ pf'[c].pc = "returned"
        /\ pf'[c].promise = "none" /\ pf'[c].error = "none"
        /\ pf'[c].nat = "none" /\ pf'[c].native = "none"
        /\ pf'[c].copyProc = "none" /\ pf'[c].pasteProc = "none"
        /\ TimersOf(pf'[c]) = {}
        /\ pf'[c].delivered = 0
        /\ pf'[c].backup = "none" /\ pf'[c].written = "none"
        /\ pf[c].pc = "unused" =>
             /\ clipboard' = clipboard
             /\ app' = app
             /\ PasteSession' = PasteSession ]_vars

\* A whitespace-only call returned in a live session and left it alone.
C36_BlankInSession ==
  \E c, d \in PasteCalls :
    /\ c < d
    /\ pf[c].pc = "returned" /\ pf[c].smart # << >>
    /\ pf[d].pc = "returned" /\ pf[d].text = <<" ">>
    /\ lastPastedText = pf[c].smart
    /\ lastPasteTime = pf[c].endTime
    /\ app = <<pf[c].smart>>

\* ------------------------------------------------- claims on the clock
\* C29: in every call of format with an earlier paste in the session, the
\* elapsed time compared against the 10 000 ms window is not negative,
\* whatever the clock reads.
C29_ElapsedNeverNegative ==
  (fmtOut # None /\ fmtIn.lastTime > 0) =>
    timeSinceLastPaste(fmtIn.clock, fmtIn.lastTime) >= 0

\* ------------------------------------------------- claims on loading
\* The call was made while the model it names was resident.
OnResident == whisperHandle # NoHandle /\ lastCall'.model = loadedModelId

\* C25: a call naming the resident model reuses it: it makes no engine
\* initialisation and leaves the cached handle in place.  An initialisation
\* therefore happens only when no handle is cached or another model is named.
C25_ResidentReused ==
  [][ /\ OnResident =>
          /\ initCalls' = initCalls
          /\ ~lastCall'.inited
          /\ whisperHandle' = whisperHandle
          /\ loadedModelId' = loadedModelId
      /\ initCalls' # initCalls =>
          whisperHandle = NoHandle \/ lastCall'.model # loadedModelId ]_vars

\* A preloadModel of the resident model returned true without an init.
C25_PreloadedTwice ==
  /\ lastCall.op = "preloadModel"
  /\ lastCall.model = lastCall.before
  /\ lastCall.model = loadedModelId
  /\ ~lastCall.inited
  /\ lastReturn = "true"
  /\ initCalls = 1

\* preloadModel has just returned false.
LoadFailed == lastCall'.op = "preloadModel" /\ lastReturn' = "false"

\* C26 as stated: a load that fails, because the file is missing or because
\* the engine rejects it, leaves the cache as it was: the model resident
\* before is still cached and its context still loaded.
C26_FailedLoadKeepsCache ==
  [][ LoadFailed =>
        /\ whisperHandle' = whisperHandle
        /\ loadedModelId' = loadedModelId
        /\ contexts' = contexts ]_vars

\* C26 amended: a load whose file is missing (or with no addon) fails and
\* leaves the cache as it was; a load the engine rejects fails and leaves
\* the cache empty, the model resident before having been freed first.
C26_FailedLoadKeepsOrEmpties ==
  [][ LoadFailed =>
        IF lastCall'.inited
          THEN /\ whisperHandle' = NoHandle
               /\ loadedModelId' = NoModel
               /\ Len(contexts') = Len(contexts)
               /\ whisperHandle # NoHandle =>
                    contexts'[whisperHandle].state = "Freed"
          ELSE /\ whisperHandle' = whisperHandle
               /\ loadedModelId' = loadedModelId
               /\ contexts' = contexts ]_vars

\* The engine rejected "base" while "tiny.en" was resident.
C26_RejectedAfterResident ==
  /\ lastCall.op = "preloadModel"
  /\ lastReturn = "false"
  /\ lastCall.inited
  /\ lastCall.before = "tiny.en"
  /\ lastCall.model = "base"
  /\ whisperHandle = NoHandle
  /\ contexts[1].state = "Freed"

\* The last call ran the engine on the cached handle and the engine ended
\* with code 0 having found the given segments.
EngineFound(segs) ==
  /\ lastCall.op = "transcribeFromBuffer"
  /\ lastCall.runs = << [code |-> 0, segs |-> segs] >>

\* C27: silence on a loaded handle is a successful outcome with no segment
\* and empty text, and the cached-model path of transcribeFromBuffer then
\* returns a result object whose text is empty, not a failure; the same
\* holds when the engine reports silence as a silence token.
C27_SilenceIsEmptySuccess ==
  /\ EngineFound(<< >>) =>
       /\ lastCall.native.kind = "ok"
       /\ lastCall.native.segments = << >>
       /\ lastCall.native.text = << >>
       /\ lastPath = "fast"
       /\ lastReturn = "emptyText"
  /\ EngineFound(<<"[BLANK_AUDIO]">>) =>
       /\ lastPath = "fast"
       /\ lastReturn = "emptyText"

\* Silence was transcribed on the handle the call itself preloaded.
C27_SilenceTranscribed ==
  /\ EngineFound(<< >>)
  /\ lastCall.inited
  /\ lastReturn = "emptyText"

\* transcribeFromBuffer has run for a downloaded model.
Transcribed == lastCall'.op = "transcribeFromBuffer" /\ lastPath' # "none"

\* C33: transcribeFromBuffer for a model other than the resident one takes
\* the uncached path only: it makes no call on the resident handle, no init
\* and no free, and leaves handle and loaded model id as they were.
C33_OtherModelBypassesCache ==
  [][ (lastCall'.op = "transcribeFromBuffer" /\ whisperHandle # NoHandle
         /\ lastCall'.model # loadedModelId) =>
        /\ whisperHandle' = whisperHandle
        /\ loadedModelId' = loadedModelId
        /\ contexts' = contexts
        /\ initCalls' = initCalls
        /\ lastCall'.options = << >>
        /\ lastCall'.runs = << >>
        /\ lastPath' \in {"slow", "none"} ]_vars

\* "base" was transcribed on the slow path while "tiny.en" stayed resident.
C33_SlowBesideResident ==
  /\ lastCall.op = "transcribeFromBuffer"
  /\ lastCall.model = "base"
  /\ lastCall.before = "tiny.en"
  /\ loadedModelId = "tiny.en"
  /\ whisperHandle # NoHandle
  /\ lastPath = "slow"
  /\ lastReturn = "text"

\* C34: the cached handle is null exactly when the loaded model id is null.
C34_HandleIffModelId ==
  (whisperHandle = NoHandle) <=> (loadedModelId = NoModel)

\* A model was loaded, then the cache emptied again: by freeModel, or by a
\* load the engine rejected.
C34_EmptiedAgain ==
  /\ initCalls >= 1
  /\ lastCall.before # NoModel
  /\ lastCall.op \in {"freeModel", "preloadModel"}
  /\ whisperHandle = NoHandle
  /\ loadedModelId = NoModel

\* C35: when the engine call on the resident handle throws, the call goes
\* on to the uncached path with the handle left in the cache, and returns
\* null only if that path throws or gives empty text.
C35_AddonErrorFallsThrough ==
  [][ (Transcribed /\ lastCall'.native = [kind |-> "throws"]) =>
        /\ lastPath' = "fast+slow"
        /\ whisperHandle' # NoHandle
        /\ loadedModelId' = lastCall'.model
        /\ contexts'[whisperHandle'].state = "Loaded"
        /\ (lastCall'.before # NoModel =>
              whisperHandle' = whisperHandle /\ contexts' = contexts)
        /\ lastCall'.slow # "none"
        /\ lastReturn' = "null" <=> lastCall'.slow \in {"empty", "throws"}
        /\ lastReturn' = "text" <=> lastCall'.slow = "text" ]_vars

\* The resident handle threw and the slow path gave the text.
C35_RecoveredOnSlowPath ==
  /\ lastCall.op = "transcribeFromBuffer"
  /\ lastCall.native = [kind |-> "throws"]
  /\ lastCall.before = lastCall.model
  /\ lastPath = "fast+slow"
  /\ lastReturn = "text"
  /\ whisperHandle # NoHandle

\* ------------------------------------------------- claims on the backends
\* The recognition-hint string for dictionary terms.
Hint(terms) == "This audio may contain these terms: " \o terms

\* Every cloud backend invoked was given the hint for the request's terms,
\* as its prompt field only.
CloudHinted ==
  \A i \in DOMAIN sent :
    /\ sent[i].prompt = Some(Hint(dictionaryContext))
    /\ sent[i].model = invoked[i]
    /\ sent[i].file = "audioFilePath"
    /\ sent[i].response_format = "text"
    /\ sent[i].language \in {None, Some("en")}

\* Every call on the cached local model was given a hint as its prompt.
LocalHinted ==
  \A i \in DOMAIN lastCall.options :
    /\ "prompt" \in DOMAIN lastCall.options[i]
    /\ \E terms \in Dictionaries \ {""} : lastCall.options[i].prompt = Hint(terms)

\* C23: every backend invoked, cloud or local, receives the same hint string
\* "This audio may contain these terms: " followed by the dictionary's
\* terms, and only in its prompt field.
C23_SameHintEverywhere ==
  /\ dictionaryContext # "" => CloudHinted
  /\ LocalHinted

\* The last backend the chain announces (gpt4o-transcriber.ts line 129:
\* "... -> whisper-1 -> gemini-2.5-flash-lite -> whisper local").
LocalBackend == "whisper local"

\* C24: the local cached-model backend is the last element of the chain: when
\* every cloud backend has failed it has been invoked, as the last one,
\* before the chain reports its result.
C24_LocalBackendLast ==
  (cpc = "done" /\ AllFailed) =>
    /\ invoked # << >>
    /\ invoked[Len(invoked)] = LocalBackend
    /\ \A i \in 1..(Len(invoked) - 1) : invoked[i] # LocalBackend

Init ==
  /\ HandleInit /\ CacheInit /\ ChainInit /\ PasteInit /\ PadInit /\ FormatInit
  /\ WorkerInit /\ NudgeInit /\ ParserInit

SpecHandle == Init /\ [][HandleNext]_vars

SpecCache == Init /\ [][CacheNext]_vars

SpecChain == Init /\ [][ChainNext]_vars

SpecPaste == Init /\ [][PasteNext]_vars

SpecPad == Init /\ [][PadNext]_vars

SpecFormat == Init /\ [][FormatNext]_vars

\* The chain's own steps are taken once they can be (the runtime resumes an
\* async function whose awaited promise has settled); whether and when a
\* backend answers is the network's affair and carries no fairness.
SpecWorker == Init /\ [][WorkerNext]_vars
SpecNudge == Init /\ [][NudgeNext]_vars
SpecParser == Init /\ [][ParserNext]_vars
\* The import and the engine call a handler awaits do settle.
SpecWorkerFair ==
  /\ SpecWorker
  /\ WF_vars(\E m \in 1..MaxMessages, ok \in BOOLEAN : ImportSettles(m, ok))
  /\ WF_vars(\E m \in 1..MaxMessages, ok \in BOOLEAN : EngineSettles(m, ok))
SpecChainFair == SpecChain /\ WF_vars(ChainResume)

====
